---- MODULE Spec2Model ----
(***************************************************************************)
(* A model of sgsession's identity-preserving entity cache: Session.merge, *)
(* Session._merge, Entity._update and the Entity mapping accessors.        *)
(*                                                                         *)
(* Python values are tagged records, so that values of different Python    *)
(* types can be compared.  Entity instances are named by object identity   *)
(* (an "oid"); their field maps, backrefs and existence flags live in     *)
(* heap.                                                                   *)
(***************************************************************************)
EXTENDS Integers, Sequences, FiniteSets, TLC

VARIABLES cache, heap, server, steps, last

vars == <<cache, heap, server, steps, last>>

(***************************************************************************)
(* Bounds of the model.                                                    *)
(***************************************************************************)
MaxId == 2

MaxVal == 2

MaxSteps == 4

Types == {"Shot", "Sequence"}

Ids == 1..MaxId

Vals == 1..MaxVal

(***************************************************************************)
(* Python values.                                                          *)
(***************************************************************************)
NoneV == [k |-> "none"]

BoolV(b) == [k |-> "bool", b |-> b]

IntV(n) == [k |-> "int", n |-> n]

StrV(s) == [k |-> "str", s |-> s]

\* An Entity instance, by object identity.
EntV(o) == [k |-> "ent", o |-> o]

\* A plain dict: a function from keys to values.
DictV(d) == [k |-> "dict", d |-> d]

ListV(l) == [k |-> "list", l |-> l]

TupleV(l) == [k |-> "tuple", l |-> l]

\* In raw input: the n-th enclosing container itself (a cyclic reference).
\* In merged output: the rebuilt container at the same place.
UpV(n) == [k |-> "up", n |-> n]

\* session.py's module-level _recursion_sentinel object.
recursion_sentinel == [k |-> "sentinel"]

\* Python truthiness.
Truthy(v) ==
    CASE v.k = "none" -> FALSE
      [] v.k = "bool" -> v.b
      [] v.k = "int" -> v.n # 0
      [] v.k = "str" -> v.s # ""
      [] v.k = "dict" -> DOMAIN v.d # {}
      [] v.k \in {"list", "tuple"} -> Len(v.l) > 0
      [] OTHER -> TRUE

\* f with key k bound to v (dict.__setitem__ on a field map).
Put(f, key, v) == [x \in DOMAIN f \cup {key} |-> IF x = key THEN v ELSE f[x]]

\* f without key k (del f[k]).
Del(f, key) == [x \in DOMAIN f \ {key} |-> f[x]]

EmptyMap == [x \in {} |-> NoneV]

(***************************************************************************)
(* Entity construction and identity.                                       *)
(***************************************************************************)
\* Entity.__init__: the field map holds type and id, no backrefs, and the
\* existence is not known yet.
Entity(type_, id_) ==
    [fields |-> [type |-> type_, id |-> id_],
     backrefs |-> EmptyMap,
     exists |-> "unknown"]

\* The identity of a fresh instance constructed for (type_, id_).
NewOid(h, type_, id_) ==
    [t |-> type_, i |-> id_,
     n |-> 1 + Cardinality({o \in DOMAIN h : o.t = type_ /\ o.i = id_})]

\* Entity.cache_key.
cache_key(fields, oid) ==
    LET type_ == IF "type" \in DOMAIN fields THEN fields["type"] ELSE NoneV
        id_ == IF "id" \in DOMAIN fields THEN fields["id"] ELSE NoneV
    IN  IF Truthy(type_) /\ Truthy(id_) THEN [type |-> type_, id |-> id_]
        ELSE IF Truthy(type_) THEN [detached |-> type_, obj |-> oid]
        ELSE IF Truthy(id_) THEN [type |-> StrV("Unknown"), id |-> id_]
        ELSE [detached |-> StrV("Unknown"), obj |-> oid]

Key(t, i) == [type |-> StrV(t), id |-> IntV(i)]

(***************************************************************************)
(* Results of the operations: the state they leave (cache and heap), the   *)
(* value they return and the exception they raise ("ok" when none).        *)
(***************************************************************************)
St(c, h) == [cache |-> c, heap |-> h]

Ok(st, v) == [st |-> st, val |-> v, err |-> "ok"]

Raise(st, e) == [st |-> st, val |-> NoneV, err |-> e]

\* A plain item assignment on the identity map: an existing entry is
\* replaced by the new instance.
cache_assign(c, key, oid) == Put(c, key, oid)

\* dict.setdefault on the identity map: an existing entry is kept.
cache_setdefault(c, key, oid) ==
    IF key \in DOMAIN c THEN c ELSE Put(c, key, oid)

\* The mappings: plain dicts and Entity instances (Entity subclasses dict).
IsDict(v) == v.k \in {"dict", "ent"}

\* The field map of a mapping value.
MapOf(h, v) == IF v.k = "ent" THEN h[v.o].fields ELSE v.d

\* Session.dir_map of tests/test_dir_map.py ('/src:/dst'), with a second
\* entry '/old:/src': paths under /src move under /dst, paths under /old
\* move under /src, every other string is unchanged.
dir_map(s) ==
    CASE s = "/src/movie.mp4" -> "/dst/movie.mp4"
      [] s = "/old/movie.mp4" -> "/src/movie.mp4"
      [] OTHER -> s

(***************************************************************************)
(* Deep-linked names.  Entity._update and Entity.__getitem__ match a key   *)
(* against  word "." Capital word-chars "." rest  (the rest may be empty   *)
(* in _update only).  The type part needs a capital followed by at least   *)
(* one more word character, so 'a.B.c' matches neither pattern and is a    *)
(* literal key.                                                            *)
(***************************************************************************)
FieldNames ==
    {"type", "id", "code", "updated_at", "sg_sequence",
     "sg_sequence.Sequence.code", "sg_sequence.Shot.code", "a.B.c"}

update_match(key) ==
    CASE key = "sg_sequence.Sequence.code" -> <<"sg_sequence", "Sequence", "code">>
      [] key = "sg_sequence.Shot.code" -> <<"sg_sequence", "Shot", "code">>
      [] OTHER -> <<>>

getitem_match(key) ==
    CASE key = "sg_sequence.Sequence.code" -> <<"sg_sequence", "Sequence", "code">>
      [] key = "sg_sequence.Shot.code" -> <<"sg_sequence", "Shot", "code">>
      [] OTHER -> <<>>

NotFound == [found |-> FALSE, val |-> NoneV]

\* Entity.__getitem__ on the field map src: found is FALSE for KeyError.
RECURSIVE getitem(_, _, _)
getitem(h, src, key) ==
    LET m == getitem_match(key)
    IN  IF m = <<>>
        THEN IF key \in DOMAIN src
             THEN [found |-> TRUE, val |-> src[key]]
             ELSE NotFound
        ELSE IF m[1] \notin DOMAIN src THEN NotFound
        ELSE IF ~IsDict(src[m[1]]) THEN NotFound
        ELSE LET f == MapOf(h, src[m[1]])
             IN  IF "type" \notin DOMAIN f THEN NotFound
                 ELSE IF f["type"] # StrV(m[2]) THEN NotFound
                 ELSE getitem(h, f, m[3])

\* Entity.__contains__.
contains(h, src, key) == getitem(h, src, key).found

\* Entity.get with one field name.
get(h, src, key, default) ==
    IF getitem(h, src, key).found THEN getitem(h, src, key).val ELSE default

(***************************************************************************)
(* Session.merge and Entity._update.                                       *)
(*                                                                         *)
(* memo is the chain of memo entries of the enclosing containers, the      *)
(* innermost last; raw data is a tree, so only a cyclic reference UpV(n)   *)
(* can find its input object in the memo.                                  *)
(***************************************************************************)
\* The memo entry of a container that is being rebuilt (its new object).
MemoNew == [k |-> "new"]

\* No memo entry: the object was not seen by this memo.
MemoAbsent == [k |-> "absent"]

MemoGet(memo, n) ==
    IF n <= Len(memo) THEN memo[Len(memo) - n + 1] ELSE MemoAbsent

\* An enumeration of a finite set: the iteration order of a dict whose
\* order does not affect the outcome.
RECURSIVE KeySeq(_)
KeySeq(S) ==
    IF S = {} THEN <<>>
    ELSE LET x == CHOOSE y \in S : TRUE IN <<x>> \o KeySeq(S \ {x})

\* The orders in which a dict with the keys S can be iterated.
Perms(S) ==
    {p \in [1..Cardinality(S) -> S] : \A i, j \in 1..Cardinality(S) : p[i] = p[j] => i = j}

\* Python 2's a > b on the timestamps of the model (None sorts first).
Gt(a, b) ==
    CASE a.k = "int" /\ b.k = "int" -> a.n > b.n
      [] a.k = "none" -> FALSE
      [] OTHER -> b.k = "none"

\* Entity._update, "Determine if new values override old ones".
do_override(h, dst, src, over, created_at) ==
    IF Truthy(over) THEN TRUE
    ELSE IF over = NoneV
    THEN IF contains(h, MapOf(h, dst), "updated_at")
            /\ ("updated_at" \in DOMAIN src \/ Truthy(created_at))
         THEN Gt(IF "updated_at" \in DOMAIN src THEN src["updated_at"] ELSE created_at,
                 getitem(h, MapOf(h, dst), "updated_at").val)
         ELSE TRUE
    ELSE FALSE

\* A registration that files dst under the type of the entity it links to
\* rather than under its own type.
add_backref_linked_type(st, v, dst, key) ==
    LET b == <<getitem(st.heap, st.heap[v].fields, "type").val, key>>
        old == IF b \in DOMAIN st.heap[v].backrefs THEN st.heap[v].backrefs[b] ELSE <<>>
        new == IF \E i \in 1..Len(old) : old[i] = dst THEN old ELSE Append(old, dst)
    IN  St(st.cache, [st.heap EXCEPT ![v].backrefs = Put(@, b, new)])

\* Entity._update, "Establish a backref": dst is appended to the bucket
\* (dst['type'], k) of the entity v unless the bucket holds it already.
add_backref(st, v, dst, key) ==
    LET b == <<getitem(st.heap, st.heap[dst].fields, "type").val, key>>
        old == IF b \in DOMAIN st.heap[v].backrefs THEN st.heap[v].backrefs[b] ELSE <<>>
        new == IF \E i \in 1..Len(old) : old[i] = dst THEN old ELSE Append(old, dst)
    IN  St(st.cache, [st.heap EXCEPT ![v].backrefs = Put(@, b, new)])

RECURSIVE merge(_, _, _, _, _, _)
RECURSIVE _merge(_, _, _, _, _, _)
RECURSIVE merge_seq(_, _, _, _, _, _, _, _)
RECURSIVE merge_seq_next(_, _, _, _, _, _, _, _)
RECURSIVE merge_items(_, _, _, _, _, _, _)
RECURSIVE merge_items_next(_, _, _, _, _, _, _)
RECURSIVE setitem(_, _, _, _)
RECURSIVE setdefault(_, _, _, _)
RECURSIVE update_deep(_, _, _, _, _)
RECURSIVE update_deep_entity(_, _, _, _, _, _)
RECURSIVE update_deep_set(_, _, _, _, _)
RECURSIVE update_loop(_, _, _, _, _, _, _, _)
RECURSIVE update_loop_merged(_, _, _, _, _, _, _, _)
RECURSIVE update_loop_set(_, _, _, _, _, _, _, _, _)
RECURSIVE _update(_, _, _, _, _, _, _)

\* Session.merge, "if id_ in _memo: return _memo[id_]": e is the memo
\* entry of the input object.  An object that this memo has not seen is
\* merged again, here from inside itself, which never ends: Python stops
\* it at its recursion limit.
memo_hit(st, data, e) ==
    CASE e = MemoAbsent -> Raise(st, "RuntimeError")
      [] e = MemoNew -> Ok(st, data)
      [] OTHER -> Ok(st, e)

\* Session.merge, "if obj is _recursion_sentinel: raise RuntimeError".
fail_very_hard(r) ==
    IF r.err = "ok" /\ r.val = recursion_sentinel
    THEN Raise(r.st, "RuntimeError")
    ELSE r

\* Session.merge: the memo around Session._merge.
merge(st, data, over, created_at, depth, memo) ==
    IF data.k = "up"
    THEN memo_hit(st, data, MemoGet(memo, data.n))
    ELSE fail_very_hard(_merge(st, data, over, created_at, depth, memo))

\* The elements of a list or tuple, merged in order.
merge_seq(st, l, i, acc, over, created_at, depth, memo) ==
    IF i > Len(l) THEN Ok(st, acc)
    ELSE merge_seq_next(merge(st, l[i], over, created_at, depth, memo),
                        l, i, acc, over, created_at, depth, memo)

merge_seq_next(r, l, i, acc, over, created_at, depth, memo) ==
    IF r.err # "ok" THEN r
    ELSE merge_seq(r.st, l, i + 1, Append(acc, r.val), over, created_at, depth, memo)

\* The values of a non-entity dict, each merged with a memo of its own.
merge_items(st, d, keys, i, acc, over, created_at) ==
    IF i > Len(keys) THEN Ok(st, acc)
    ELSE merge_items_next(merge(st, d[keys[i]], over, created_at, 0, <<>>),
                          d, keys, i, acc, over, created_at)

merge_items_next(r, d, keys, i, acc, over, created_at) ==
    IF r.err # "ok" THEN r
    ELSE merge_items(r.st, d, keys, i + 1, Put(acc, keys[i], r.val), over, created_at)

\* The rebuilt container around its merged contents.
Rebuilt(r, kind) ==
    IF r.err # "ok" THEN r
    ELSE CASE kind = "list" -> Ok(r.st, ListV(r.val))
           [] kind = "tuple" -> Ok(r.st, TupleV(r.val))
           [] OTHER -> Ok(r.st, DictV(r.val))

\* Session._merge, "return entity" after entity._update has returned.
Updated(r, entity) == IF r.err # "ok" THEN r ELSE Ok(r.st, EntV(entity))

\* Session._merge, "If it already exists, then merge this into the old
\* one": c is the identity map after the setdefault, and the new instance
\* is kept only when the map holds it.  entity._update(data, over,
\* created_at, depth + 1, memo) binds dst=data, src=over, over=created_at,
\* created_at=depth + 1 and depth=memo.
merge_entity(st, data, over, created_at, depth, oid, key, c) ==
    Updated(_update(St(c, IF oid \in {c[x] : x \in DOMAIN c}
                          THEN Put(st.heap, oid, Entity(data.d["type"], data.d["id"]))
                          ELSE st.heap),
                    c[key], data, over, created_at, IntV(depth + 1), <<>>),
            c[key])

\* An owned Entity passed through, but with what is known of its existence
\* forgotten.
pass_through_resetting(st, data) ==
    Ok(St(st.cache, [st.heap EXCEPT ![data.o].exists = "unknown"]), data)

\* Session._merge, "Pass through entities if they are owned by us".
pass_through(st, data) == Ok(st, data)

\* Session._merge.
_merge(st, data, over, created_at, depth, memo) ==
    CASE data.k = "ent" -> pass_through(st, data)
      [] data.k = "list" ->
            Rebuilt(merge_seq(st, data.l, 1, <<>>, over, created_at, depth + 1,
                              Append(memo, MemoNew)), "list")
      [] data.k = "tuple" ->
            Rebuilt(merge_seq(st, data.l, 1, <<>>, over, created_at, depth + 1,
                              Append(memo, recursion_sentinel)), "tuple")
      [] data.k = "str" -> Ok(st, StrV(dir_map(data.s)))
      [] data.k = "dict" /\ ~("type" \in DOMAIN data.d /\ "id" \in DOMAIN data.d) ->
            Rebuilt(merge_items(st, data.d, KeySeq(DOMAIN data.d), 1, EmptyMap,
                                over, created_at), "dict")
      [] data.k = "dict" /\ "type" \in DOMAIN data.d /\ "id" \in DOMAIN data.d ->
            LET oid == NewOid(st.heap, data.d["type"], data.d["id"])
                key == cache_key(Entity(data.d["type"], data.d["id"]).fields, oid)
            IN  merge_entity(st, data, over, created_at, depth, oid, key,
                             cache_setdefault(st.cache, key, oid))
      [] OTHER -> Ok(st, data)

\* dict.__setitem__(self, key, value) with value the result r of a merge.
Stored(r, self, key) ==
    IF r.err # "ok" THEN r
    ELSE Ok(St(r.st.cache, [r.st.heap EXCEPT ![self].fields = Put(@, key, r.val)]), NoneV)

\* dict.setdefault(self, key, value) with value the result r of a merge.
StoredDefault(r, self, key) ==
    IF r.err # "ok" THEN r
    ELSE IF key \in DOMAIN r.st.heap[self].fields
    THEN Ok(r.st, r.st.heap[self].fields[key])
    ELSE Ok(St(r.st.cache, [r.st.heap EXCEPT ![self].fields = Put(@, key, r.val)]), r.val)

\* Entity.__setitem__: dict.__setitem__(self, key, self.session.merge(value)).
setitem(st, self, key, value) ==
    Stored(merge(st, value, NoneV, NoneV, 0, <<>>), self, key)

\* Entity.setdefault: dict.setdefault(self, key, self.session.merge(value)).
setdefault(st, self, key, value) ==
    StoredDefault(merge(st, value, NoneV, NoneV, 0, <<>>), self, key)

\* The stub or link dict cur after src[field].setdefault('type', type_) and,
\* when the types agree and v is not None, src[field][deep_field] = v.
deep_dict(cur, type_, deep_field, v) ==
    LET d1 == IF "type" \in DOMAIN cur THEN cur ELSE Put(cur, "type", StrV(type_))
    IN  IF d1["type"] = StrV(type_) /\ v # NoneV THEN Put(d1, deep_field, v) ELSE d1

\* Entity._update, "Pre-process deep linked names": items is the snapshot
\* src.items(), keys its deep-linked keys; the result's val is the new src.
update_deep(st, src, items, keys, i) ==
    IF i > Len(keys) THEN Ok(st, src)
    ELSE LET k == keys[i]
             field == update_match(k)[1]
             cur == IF field \in DOMAIN src THEN src[field] ELSE DictV(EmptyMap)
         IN  CASE cur.k = "dict" ->
                    update_deep(st,
                                Del(Put(src, field,
                                        DictV(deep_dict(cur.d, update_match(k)[2],
                                                        update_match(k)[3], items[k]))), k),
                                items, keys, i + 1)
               [] cur.k = "ent" ->
                    update_deep_entity(setdefault(st, cur.o, "type", StrV(update_match(k)[2])),
                                       cur.o, src, items, keys, i)
               [] OTHER ->
                    IF items[k] # NoneV THEN Raise(st, "ValueError")
                    ELSE update_deep(st, Del(src, k), items, keys, i + 1)

\* A deep write that files the value on the linked instance whatever its
\* type.
update_deep_entity_any_type(t, o, src, items, keys, i) ==
    IF t.err # "ok" THEN t
    ELSE IF items[keys[i]] # NoneV
    THEN update_deep_set(setitem(t.st, o, update_match(keys[i])[3], items[keys[i]]),
                         src, items, keys, i)
    ELSE update_deep(t.st, Del(src, keys[i]), items, keys, i + 1)

\* The same when src[field] is an Entity instance: t is the result of its
\* setdefault('type', type_), and the deep value is assigned on the instance.
update_deep_entity(t, o, src, items, keys, i) ==
    IF t.err # "ok" THEN t
    ELSE IF t.val = StrV(update_match(keys[i])[2]) /\ items[keys[i]] # NoneV
    THEN update_deep_set(setitem(t.st, o, update_match(keys[i])[3], items[keys[i]]),
                         src, items, keys, i)
    ELSE update_deep(t.st, Del(src, keys[i]), items, keys, i + 1)

update_deep_set(s, src, items, keys, i) ==
    IF s.err # "ok" THEN s
    ELSE update_deep(s.st, Del(src, keys[i]), items, keys, i + 1)

\* The deep-linked keys of a dict, in its iteration order.
DeepKeys(src) == KeySeq({k \in DOMAIN src : update_match(k) # <<>>})

\* Entity._update, "if do_override or k not in dst".
should_set(h, dst, k, do) == do \/ ~contains(h, h[dst].fields, k)

\* Entity._update, the loop over src.iteritems() in the order given.
update_loop(st, dst, src, order, i, do, over, created_at) ==
    IF i > Len(order) THEN Ok(st, NoneV)
    ELSE update_loop_merged(merge(st, src[order[i]], over, created_at, 0, <<>>),
                            dst, src, order, i, do, over, created_at)

\* m is the merged value v of the key order[i].
update_loop_merged(m, dst, src, order, i, do, over, created_at) ==
    IF m.err # "ok" THEN m
    ELSE IF should_set(m.st.heap, dst, order[i], do)
    THEN update_loop_set(setitem(m.st, dst, order[i], m.val), m.val,
                         dst, src, order, i, do, over, created_at)
    ELSE update_loop(m.st, dst, src, order, i + 1, do, over, created_at)

\* s is the result of dst[k] = v.
update_loop_set(s, v, dst, src, order, i, do, over, created_at) ==
    IF s.err # "ok" THEN s
    ELSE update_loop(IF v.k = "ent" THEN add_backref(s.st, v.o, dst, order[i]) ELSE s.st,
                     dst, src, order, i + 1, do, over, created_at)

\* Entity._update after the pre-processing pre of the deep-linked names.
update_fields(pre, dst, over, created_at, order) ==
    IF pre.err # "ok" THEN pre
    ELSE update_loop(pre.st, dst.o, pre.val, order, 1,
                     do_override(pre.st.heap, dst, pre.val, over, created_at),
                     over, created_at)

\* Entity._update(self, dst, src, over, created_at, depth); the body does
\* not use depth.  src = dict(src) raises TypeError unless src is a
\* mapping.  order is the iteration order of the pre-processed src.
_update(st, self, dst, src, over, created_at, order) ==
    IF ~IsDict(src) THEN Raise(st, "TypeError")
    ELSE update_fields(update_deep(st, MapOf(st.heap, src), MapOf(st.heap, src),
                                   DeepKeys(MapOf(st.heap, src)), 1),
                       dst, over, created_at, order)

(***************************************************************************)
(* The inputs of the operations.                                           *)
(***************************************************************************)
Keys == {Key(t, i) : t \in Types, i \in Ids}

\* The minimal raw record of an entity: its type and id.
Minimal(t, i) == DictV([type |-> StrV(t), id |-> IntV(i)])

\* Raw records carrying code and updated_at.
FullRecords ==
    {DictV([type |-> StrV(t), id |-> IntV(i), code |-> IntV(v), updated_at |-> IntV(u)]) :
        t \in Types, i \in Ids, v \in Vals, u \in Vals}

FlatRecords == {Minimal(t, i) : t \in Types, i \in Ids} \cup FullRecords

\* A Shot record that links to its Sequence by a nested raw record.
LinkRecords ==
    {DictV([type |-> StrV("Shot"), id |-> IntV(i), sg_sequence |-> Minimal("Sequence", j)]) :
        i \in Ids, j \in Ids}

\* Two records that reference each other: shot.sg_sequence is the sequence
\* and sequence.sg_shot is the shot record itself.
MutualRecords ==
    {DictV([type |-> StrV("Shot"), id |-> IntV(i),
            sg_sequence |-> DictV([type |-> StrV("Sequence"), id |-> IntV(j),
                                   sg_shot |-> UpV(2)])]) : i \in Ids, j \in {1}}

\* A Shot record with a deep-linked key.
DeepRecords ==
    {DictV(Put([type |-> StrV("Shot"), id |-> IntV(i)],
               "sg_sequence.Sequence.code", IntV(v))) : i \in Ids, v \in Vals}

\* Data that is no entity: scalars, dicts without type or id, and a list
\* and a tuple of raw records.
PlainData ==
    {IntV(1), StrV("/src/movie.mp4"),
     DictV([code |-> IntV(1)]),
     DictV([type |-> StrV("Shot")]),
     DictV([id |-> IntV(1)]),
     ListV(<<Minimal("Shot", 1), Minimal("Shot", 2)>>),
     TupleV(<<Minimal("Sequence", 1)>>)}

Overs == {NoneV, BoolV(TRUE), BoolV(FALSE)}

\* The Entity instances of the session.
Oids == DOMAIN heap

OidsOf(t) == {o \in Oids : o.t = StrV(t)}

\* The calls of Session.merge: <<data, over, created_at>>.
MergeCalls ==
    {<<d, o, NoneV>> : d \in FlatRecords, o \in Overs}
    \cup {<<d, NoneV, NoneV>> :
              d \in LinkRecords \cup MutualRecords \cup DeepRecords \cup PlainData
                    \cup {EntV(o) : o \in Oids}}
    \cup {<<Minimal(t, i), NoneV, IntV(1)>> : t \in Types, i \in Ids}

\* The arguments of Entity.update.
UpdateInputs ==
    {DictV([code |-> IntV(v)]) : v \in Vals}
    \cup {DictV([code |-> IntV(v), updated_at |-> IntV(u)]) : v \in Vals, u \in Vals}
    \cup {DictV([sg_sequence |-> EntV(o)]) : o \in OidsOf("Sequence")}
    \cup {DictV([sg_sequence |-> EntV(o), updated_at |-> IntV(u)]) :
              o \in OidsOf("Sequence"), u \in Vals}
    \cup {DictV([sg_sequence |-> NoneV])}
    \cup {DictV([sg_sequence |-> Minimal("Sequence", j)]) : j \in Ids}
    \cup {DictV([code |-> IntV(1), sg_sequence |-> Minimal("Sequence", j)]) : j \in Ids}
    \cup {DictV(Put(EmptyMap, "sg_sequence.Sequence.code", IntV(v))) : v \in Vals}
    \cup {DictV(Put(EmptyMap, "a.B.c", IntV(1)))}

\* The values assigned by item assignment and setdefault.
ItemInputs ==
    {<<"code", IntV(1)>>}
    \cup {<<"sg_sequence", EntV(o)>> : o \in OidsOf("Sequence")}
    \cup {<<"sg_sequence", Minimal("Sequence", 1)>>}

(***************************************************************************)
(* The state machine.                                                      *)
(***************************************************************************)
Op(op, self, data, over, created_at, r) ==
    [op |-> op, self |-> self, data |-> data, over |-> over,
     created_at |-> created_at, err |-> r.err, ret |-> r.val]

\* Session.__init__: an empty identity map.  Every entity of the model
\* exists on the server to begin with.
Init ==
    /\ cache = EmptyMap
    /\ heap = EmptyMap
    /\ server = Keys
    /\ steps = 0
    /\ last = Op("init", NoneV, NoneV, NoneV, NoneV, Ok(St(EmptyMap, EmptyMap), NoneV))

Step(r) ==
    /\ steps < MaxSteps
    /\ steps' = steps + 1
    /\ cache' = r.st.cache
    /\ heap' = r.st.heap

\* Session.merge(data, over, created_at).
Merge ==
    \E call \in MergeCalls :
        LET r == merge(St(cache, heap), call[1], call[2], call[3], 0, <<>>)
        IN  /\ Step(r)
            /\ last' = Op("merge", NoneV, call[1], call[2], call[3], r)
            /\ UNCHANGED server

\* shotgun.find for one id: the record of the entity when it is live.
shotgun_find(key) == IF key \in server THEN <<DictV(key)>> ELSE <<>>

\* Session.find as Session.get uses it: every record found is merged with
\* over=True.
find(st, key) ==
    Rebuilt(merge_seq(st, shotgun_find(key), 1, <<>>, BoolV(TRUE), NoneV, 0, <<>>), "list")

\* Session.find_one: the first result, or None.
find_one(f) ==
    IF f.err # "ok" THEN f
    ELSE IF Len(f.val.l) > 0 THEN Ok(f.st, f.val.l[1])
    ELSE Ok(f.st, NoneV)

\* Session.get(type_, id_): the cached instance, or else find_one.
session_get(st, key) ==
    IF key \in DOMAIN st.cache THEN Ok(st, EntV(st.cache[key]))
    ELSE find_one(find(st, key))

Get ==
    \E key \in Keys :
        LET r == session_get(St(cache, heap), key)
        IN  /\ Step(r)
            /\ last' = Op("get", NoneV, DictV(key), NoneV, NoneV, r)
            /\ UNCHANGED server

\* The orders in which Entity._update can iterate over x once its
\* deep-linked names are pre-processed.
Orders(pre) == IF pre.err = "ok" THEN Perms(DOMAIN pre.val) ELSE {<<>>}

\* Entity.update(x): self._update(self, x), then the same with the empty
\* kwargs, which changes nothing.
EntityUpdate ==
    \E self \in Oids, x \in UpdateInputs :
        \E order \in Orders(update_deep(St(cache, heap), x.d, x.d, DeepKeys(x.d), 1)) :
            LET r == _update(St(cache, heap), self, EntV(self), x, NoneV, NoneV, order)
            IN  /\ Step(r)
                /\ last' = Op("update", self, x, NoneV, NoneV, r)
                /\ UNCHANGED server

\* Entity.__setitem__(key, value).
SetItem ==
    \E self \in Oids, kv \in ItemInputs :
        LET r == setitem(St(cache, heap), self, kv[1], kv[2])
        IN  /\ Step(r)
            /\ last' = Op("setitem", self, DictV(Put(EmptyMap, kv[1], kv[2])), NoneV, NoneV, r)
            /\ UNCHANGED server

\* Entity.setdefault(key, value).
SetDefault ==
    \E self \in Oids, kv \in ItemInputs :
        LET r == setdefault(St(cache, heap), self, kv[1], kv[2])
        IN  /\ Step(r)
            /\ last' = Op("setdefault", self, DictV(Put(EmptyMap, kv[1], kv[2])), NoneV, NoneV, r)
            /\ UNCHANGED server

\* Session.delete(entity) for an Entity: the server retires it and the
\* instance is marked as not existing.
DeleteForgetting ==
    \E self \in Oids :
        LET key == cache_key(heap[self].fields, self)
        IN  /\ key \in server
            /\ steps < MaxSteps
            /\ steps' = steps + 1
            /\ server' = server \ {key}
            /\ cache' = Del(cache, key)
            /\ heap' = [heap EXCEPT ![self].exists = "retired"]
            /\ last' = Op("delete", self, NoneV, NoneV, NoneV, Ok(St(cache, heap), NoneV))

Delete ==
    \E self \in Oids :
        LET key == cache_key(heap[self].fields, self)
        IN  /\ key \in server
            /\ steps < MaxSteps
            /\ steps' = steps + 1
            /\ server' = server \ {key}
            /\ heap' = [heap EXCEPT ![self].exists = "retired"]
            /\ last' = Op("delete", self, NoneV, NoneV, NoneV, Ok(St(cache, heap), NoneV))
            /\ UNCHANGED cache

Next ==
    \/ Merge
    \/ Get
    \/ EntityUpdate
    \/ SetItem
    \/ SetDefault
    \/ Delete

Spec == Init /\ [][Next]_vars

(***************************************************************************)
(* Notions the properties share.                                           *)
(***************************************************************************)
\* A raw mapping with both type and id: the record of an entity.
IsEntityRecord(v) == v.k = "dict" /\ "type" \in DOMAIN v.d /\ "id" \in DOMAIN v.d

\* The identity-map key of a raw record.
RecordKey(v) == [type |-> v.d["type"], id |-> v.d["id"]]

\* The field map of the canonical entity of a key; empty when the key is
\* not registered.
FieldsAt(c, h, key) == IF key \in DOMAIN c THEN h[c[key]].fields ELSE EmptyMap

\* The backref bucket b of the instance x.
Bucket(h, x, b) == IF b \in DOMAIN h[x].backrefs THEN h[x].backrefs[b] ELSE <<>>

Listed(h, x, b, s) == \E i \in 1..Len(Bucket(h, x, b)) : Bucket(h, x, b)[i] = s

\* The last operation was Session.merge of the record of an entity.
MergedRecord == last.op = "merge" /\ IsEntityRecord(last.data)

(***************************************************************************)
(* C1.  Within one session an identity-map entry is never replaced or      *)
(* removed, no two registered instances share a (type, id), every          *)
(* registered instance is filed under its own (type, id), and an operation *)
(* that returns an Entity (a merge or a lookup) returns the instance       *)
(* registered for its key.                                                 *)
(***************************************************************************)
C1_Canonical ==
    /\ \A key \in DOMAIN cache :
          /\ cache[key] \in DOMAIN heap
          /\ cache_key(heap[cache[key]].fields, cache[key]) = key
    /\ \A o1, o2 \in DOMAIN heap :
          cache_key(heap[o1].fields, o1) = cache_key(heap[o2].fields, o2) => o1 = o2
    /\ (last.err = "ok" /\ last.ret.k = "ent") =>
          /\ last.ret.o \in DOMAIN heap
          /\ FieldsAt(cache, heap, cache_key(heap[last.ret.o].fields, last.ret.o))
                = heap[last.ret.o].fields
          /\ cache[cache_key(heap[last.ret.o].fields, last.ret.o)] = last.ret.o

C1_EntriesKept ==
    \A key \in DOMAIN cache : key \in DOMAIN cache' /\ cache'[key] = cache[key]

C2_Deposited ==
    (last'.op = "merge" /\ IsEntityRecord(last'.data) /\ last'.over = BoolV(TRUE)) =>
        /\ last'.err = "ok"
        /\ \A k \in DOMAIN last'.data.d :
              last'.data.d[k].k \in {"int", "str"} =>
                 /\ k \in DOMAIN FieldsAt(cache', heap', RecordKey(last'.data))
                 /\ FieldsAt(cache', heap', RecordKey(last'.data))[k] = last'.data.d[k]
        /\ \A k \in DOMAIN FieldsAt(cache, heap, RecordKey(last'.data)) \ DOMAIN last'.data.d :
              /\ k \in DOMAIN FieldsAt(cache', heap', RecordKey(last'.data))
              /\ FieldsAt(cache', heap', RecordKey(last'.data))[k]
                    = FieldsAt(cache, heap, RecordKey(last'.data))[k]

C2_MergeInPlace == [][C2_Deposited]_vars

(***************************************************************************)
(* C3.  In the default mode (over=None), merging a record that carries     *)
(* updated_at replaces a key the destination already has iff the           *)
(* destination has no updated_at or the record's is strictly greater;      *)
(* otherwise the destination keeps its value.                              *)
(***************************************************************************)
C3_Newer(d, old) ==
    "updated_at" \notin DOMAIN old \/ Gt(d["updated_at"], old["updated_at"])

C3_Replaced ==
    (/\ last'.op = "merge"
     /\ last'.data \in FullRecords
     /\ last'.over = NoneV
     /\ RecordKey(last'.data) \in DOMAIN cache) =>
        \A k \in DOMAIN last'.data.d \cap DOMAIN FieldsAt(cache, heap, RecordKey(last'.data)) :
            FieldsAt(cache', heap', RecordKey(last'.data))[k]
              = IF C3_Newer(last'.data.d, FieldsAt(cache, heap, RecordKey(last'.data)))
                THEN last'.data.d[k]
                ELSE FieldsAt(cache, heap, RecordKey(last'.data))[k]

C3_TimestampMode == [][C3_Replaced]_vars

(***************************************************************************)
(* C4.  An explicit override flag takes precedence over the timestamps:    *)
(* with over=True every key of the record replaces the destination's       *)
(* value, with over=False no key the destination already has changes.      *)
(***************************************************************************)
C4_Flag ==
    (/\ last'.op = "merge"
     /\ last'.data \in FullRecords
     /\ RecordKey(last'.data) \in DOMAIN cache) =>
        /\ last'.over = BoolV(TRUE) =>
              \A k \in DOMAIN last'.data.d :
                  /\ k \in DOMAIN FieldsAt(cache', heap', RecordKey(last'.data))
                  /\ FieldsAt(cache', heap', RecordKey(last'.data))[k] = last'.data.d[k]
        /\ last'.over = BoolV(FALSE) =>
              \A k \in DOMAIN FieldsAt(cache, heap, RecordKey(last'.data)) :
                  FieldsAt(cache', heap', RecordKey(last'.data))[k]
                     = FieldsAt(cache, heap, RecordKey(last'.data))[k]

C4_OverrideFlag == [][C4_Flag]_vars

(***************************************************************************)
(* C5.  In every overwrite mode, each key of the merged record that the    *)
(* destination does not have is on the destination after the merge, with   *)
(* the incoming value.                                                     *)
(***************************************************************************)
C5_Added ==
    (last'.op = "merge" /\ last'.data \in FlatRecords) =>
        \A k \in DOMAIN last'.data.d \ DOMAIN FieldsAt(cache, heap, RecordKey(last'.data)) :
            /\ k \in DOMAIN FieldsAt(cache', heap', RecordKey(last'.data))
            /\ FieldsAt(cache', heap', RecordKey(last'.data))[k] = last'.data.d[k]

C5_AbsentKeysAdded == [][C5_Added]_vars

(***************************************************************************)
(* C6.  Merging two records that reference each other returns the          *)
(* canonical entity x of the first, with x[sg_sequence][sg_shot] being x   *)
(* itself.                                                                 *)
(***************************************************************************)
C6_MutualMerge ==
    (last.op = "merge" /\ last.data \in MutualRecords) =>
        /\ last.err = "ok"
        /\ last.ret.k = "ent"
        /\ "sg_sequence" \in DOMAIN heap[last.ret.o].fields
        /\ heap[last.ret.o].fields["sg_sequence"].k = "ent"
        /\ "sg_shot" \in DOMAIN heap[heap[last.ret.o].fields["sg_sequence"].o].fields
        /\ heap[heap[last.ret.o].fields["sg_sequence"].o].fields["sg_shot"] = last.ret

(***************************************************************************)
(* C7.  After merging a child record that links to its parent through      *)
(* sg_sequence, the parent's backref bucket (Shot, sg_sequence) holds the  *)
(* child, exactly once.                                                    *)
(***************************************************************************)
C7_ChildListed ==
    (last.op = "merge" /\ last.data \in LinkRecords) =>
        /\ RecordKey(last.data) \in DOMAIN cache
        /\ RecordKey(last.data.d["sg_sequence"]) \in DOMAIN cache
        /\ Cardinality({i \in 1..Len(Bucket(heap, cache[RecordKey(last.data.d["sg_sequence"])],
                                            <<StrV("Shot"), "sg_sequence">>)) :
                           Bucket(heap, cache[RecordKey(last.data.d["sg_sequence"])],
                                  <<StrV("Shot"), "sg_sequence">>)[i]
                             = cache[RecordKey(last.data)]}) = 1

(***************************************************************************)
(* C8, as claimed.  In every reachable state each entity s listed in       *)
(* x.backrefs[(T, F)] has type T and its field F refers to the instance x. *)
(***************************************************************************)
C8_BackrefsPointBack ==
    \A x \in DOMAIN heap : \A b \in DOMAIN heap[x].backrefs :
        \A i \in 1..Len(heap[x].backrefs[b]) :
            LET s == heap[x].backrefs[b][i]
            IN  /\ heap[s].fields["type"] = b[1]
                /\ b[2] \in DOMAIN heap[s].fields
                /\ heap[s].fields[b[2]] = EntV(x)

(***************************************************************************)
(* C8, amended.  Each entity s listed in x.backrefs[(T, F)] has type T and *)
(* has a field F, and at the end of the operation that lists s its field F *)
(* refers to the instance x.  A bucket is never pruned: s stays listed     *)
(* when its field F is pointed elsewhere later.                            *)
(***************************************************************************)
C8_ListedTyped ==
    \A x \in DOMAIN heap : \A b \in DOMAIN heap[x].backrefs :
        \A i \in 1..Len(heap[x].backrefs[b]) :
            /\ heap[x].backrefs[b][i] \in DOMAIN heap
            /\ heap[heap[x].backrefs[b][i]].fields["type"] = b[1]
            /\ b[2] \in DOMAIN heap[heap[x].backrefs[b][i]].fields

C8_ListedWhenLinked ==
    \A x \in DOMAIN heap' : \A b \in DOMAIN heap'[x].backrefs : \A s \in DOMAIN heap' :
        /\ (Listed(heap', x, b, s) /\ ~(x \in DOMAIN heap /\ Listed(heap, x, b, s))) =>
               heap'[s].fields[b[2]] = EntV(x)
        /\ (x \in DOMAIN heap /\ Listed(heap, x, b, s)) => Listed(heap', x, b, s)

C8_BackrefsAtListing == [](C8_ListedTyped) /\ [][C8_ListedWhenLinked]_vars

\* C8 witness: an entity is still listed in the bucket of an instance that
\* its field no longer refers to.
C8_Witness ==
    \E x \in DOMAIN heap : \E b \in DOMAIN heap[x].backrefs :
        \E i \in 1..Len(heap[x].backrefs[b]) :
            heap[heap[x].backrefs[b][i]].fields[b[2]] # EntV(x)

(***************************************************************************)
(* C9.  In every reachable state, d[F] being the Entity x implies that d   *)
(* is listed in x.backrefs[(d.type, F)].                                   *)
(***************************************************************************)
C9_LinkListed ==
    \A d \in DOMAIN heap : \A f \in DOMAIN heap[d].fields :
        heap[d].fields[f].k = "ent" =>
            Listed(heap, heap[d].fields[f].o, <<heap[d].fields["type"], f>>, d)

(***************************************************************************)
(* C10.  After merging a record whose key 'sg_sequence.Sequence.code' has  *)
(* the value v into an entity without the field sg_sequence, sg_sequence   *)
(* is a link or stub of type Sequence with code = v, there is no literal   *)
(* key 'sg_sequence.Sequence.code', reading that name yields v and reading *)
(* 'sg_sequence.Shot.code' is not found.                                   *)
(***************************************************************************)
C10_Deep ==
    (/\ last'.op = "merge"
     /\ last'.data \in DeepRecords
     /\ "sg_sequence" \notin DOMAIN FieldsAt(cache, heap, RecordKey(last'.data))) =>
        LET new == FieldsAt(cache', heap', RecordKey(last'.data))
        IN  /\ "sg_sequence" \in DOMAIN new
            /\ IsDict(new["sg_sequence"])
            /\ MapOf(heap', new["sg_sequence"])["type"] = StrV("Sequence")
            /\ "sg_sequence.Sequence.code" \notin DOMAIN new
            /\ getitem(heap', new, "sg_sequence.Sequence.code")
                  = [found |-> TRUE, val |-> last'.data.d["sg_sequence.Sequence.code"]]
            /\ ~contains(heap', new, "sg_sequence.Shot.code")

C10_DeepReadsMirrorWrites == [][C10_Deep]_vars

(***************************************************************************)
(* Deep-linked names against an existing link.                             *)
(***************************************************************************)
\* Session.merge of a minimal record: the call that registers an instance.
RegisterCalls == {<<Minimal(t, i), NoneV, NoneV>> : t \in Types, i \in Ids}

Register ==
    \E call \in RegisterCalls :
        LET r == merge(St(cache, heap), call[1], call[2], call[3], 0, <<>>)
        IN  /\ Step(r)
            /\ last' = Op("merge", NoneV, call[1], call[2], call[3], r)
            /\ UNCHANGED server

\* Arguments that point sg_sequence at an instance of any type.
LinkInputs == {DictV([sg_sequence |-> EntV(o)]) : o \in Oids}

\* Arguments with the deep-linked name sg_sequence.Sequence.code, alone or
\* next to a value for sg_sequence itself.
DeepInputs ==
    {DictV(Put(EmptyMap, "sg_sequence.Sequence.code", v)) : v \in {IntV(1), NoneV}}
    \cup {DictV(Put([sg_sequence |-> x], "sg_sequence.Sequence.code", IntV(1))) :
              x \in {EntV(o) : o \in Oids} \cup {NoneV, IntV(1)}}

\* Entity.update(x) with x in LinkInputs.
LinkUpdate ==
    \E self \in Oids, x \in LinkInputs :
        \E order \in Orders(update_deep(St(cache, heap), x.d, x.d, DeepKeys(x.d), 1)) :
            LET r == _update(St(cache, heap), self, EntV(self), x, NoneV, NoneV, order)
            IN  /\ Step(r)
                /\ last' = Op("update", self, x, NoneV, NoneV, r)
                /\ UNCHANGED server

\* Entity.update(x) with x in DeepInputs.
DeepUpdate ==
    \E self \in Oids, x \in DeepInputs :
        \E order \in Orders(update_deep(St(cache, heap), x.d, x.d, DeepKeys(x.d), 1)) :
            LET r == _update(St(cache, heap), self, EntV(self), x, NoneV, NoneV, order)
            IN  /\ Step(r)
                /\ last' = Op("update", self, x, NoneV, NoneV, r)
                /\ UNCHANGED server

NextDeep ==
    \/ Register
    \/ LinkUpdate
    \/ DeepUpdate

SpecDeep == Init /\ [][NextDeep]_vars

\* The type of a link value: of an Entity instance or of a raw mapping.
LinkType(h, v) ==
    IF IsDict(v) /\ "type" \in DOMAIN MapOf(h, v) THEN MapOf(h, v)["type"] ELSE NoneV

\* The step is an Entity.update whose record carries sg_sequence.Sequence.code
\* with a value that is not None while the record itself holds, at
\* sg_sequence, an instance of another type.
C11_RecordConflict ==
    /\ last'.op = "update"
    /\ "sg_sequence.Sequence.code" \in DOMAIN last'.data.d
    /\ last'.data.d["sg_sequence.Sequence.code"] # NoneV
    /\ "sg_sequence" \in DOMAIN last'.data.d
    /\ last'.data.d["sg_sequence"].k = "ent"
    /\ LinkType(heap, last'.data.d["sg_sequence"]) # StrV("Sequence")

\* The same while the record has no sg_sequence and the destination holds,
\* at sg_sequence, an instance of another type.
C11_DestinationConflict ==
    /\ last'.op = "update"
    /\ "sg_sequence.Sequence.code" \in DOMAIN last'.data.d
    /\ last'.data.d["sg_sequence.Sequence.code"] # NoneV
    /\ "sg_sequence" \notin DOMAIN last'.data.d
    /\ "sg_sequence" \in DOMAIN heap[last'.self].fields
    /\ heap[last'.self].fields["sg_sequence"].k = "ent"
    /\ LinkType(heap, heap[last'.self].fields["sg_sequence"]) # StrV("Sequence")

C11_Dropped ==
    C11_RecordConflict =>
        /\ last'.err = "ok"
        /\ heap'[last'.self].fields["sg_sequence"] = last'.data.d["sg_sequence"]
        /\ "sg_sequence.Sequence.code" \notin DOMAIN heap'[last'.self].fields
        /\ \A f \in DOMAIN heap'[last'.data.d["sg_sequence"].o].fields \cup
                    DOMAIN heap[last'.data.d["sg_sequence"].o].fields :
              (f # "sg_sequence" \/ last'.data.d["sg_sequence"].o # last'.self) =>
                  /\ f \in DOMAIN heap[last'.data.d["sg_sequence"].o].fields
                  /\ f \in DOMAIN heap'[last'.data.d["sg_sequence"].o].fields
                  /\ heap'[last'.data.d["sg_sequence"].o].fields[f]
                        = heap[last'.data.d["sg_sequence"].o].fields[f]

C11_Replaced ==
    C11_DestinationConflict =>
        /\ last'.err = "ok"
        /\ heap'[last'.self].fields["sg_sequence"]
              = DictV([type |-> StrV("Sequence"),
                       code |-> last'.data.d["sg_sequence.Sequence.code"]])
        /\ "sg_sequence.Sequence.code" \notin DOMAIN heap'[last'.self].fields

HTypes == {"Shot", "Sequence", "Project"}

\* Session.parent_fields for the types of the model.
parent_fields(type_) ==
    CASE type_ = StrV("Shot") -> StrV("sg_sequence")
      [] type_ = StrV("Sequence") -> StrV("project")
      [] OTHER -> NoneV

\* Entity.parent(fetch=False): self.get(field), None for a Project.
parent(h, o) ==
    IF parent_fields(h[o].fields["type"]) = NoneV THEN NoneV
    ELSE get(h, h[o].fields, parent_fields(h[o].fields["type"]).s, NoneV)

OkR(st, v, reqs) == [st |-> st, val |-> v, err |-> "ok", reqs |-> reqs]

RaiseR(st, e, reqs) == [st |-> st, val |-> NoneV, err |-> e, reqs |-> reqs]

\* A set of Entity instances, as the sets and the list(all_nodes) of
\* fetch_heirarchy and filter_exists: no order, no duplicates.
SetV(S) == [k |-> "set", s |-> S]

\* "while entity.parent(fetch=False): entity = entity.parent();
\* all_nodes.add(entity)".  entity.parent() sends nothing, the field being
\* present.  seen holds the instances this walk has visited: the walk reads
\* the heap only, so when it comes back to one of them it goes round for
\* ever ("nontermination").  A parent that is a plain dict cannot be added
\* to a set, and any other value has no parent method.
RECURSIVE walk(_, _, _, _)
walk(h, entity, nodes, seen) ==
    IF ~Truthy(parent(h, entity)) THEN [err |-> "ok", top |-> entity, nodes |-> nodes]
    ELSE IF parent(h, entity).k = "dict" THEN [err |-> "TypeError", top |-> entity, nodes |-> nodes]
    ELSE IF parent(h, entity).k # "ent"
    THEN [err |-> "AttributeError", top |-> entity, nodes |-> nodes]
    ELSE IF parent(h, entity).o \in seen
    THEN [err |-> "nontermination", top |-> entity, nodes |-> nodes]
    ELSE walk(h, parent(h, entity).o, nodes \cup {parent(h, entity).o},
              seen \cup {parent(h, entity).o})

\* A walk that takes every top of a chain for resolved.
needs_resolve_never(h, top) == FALSE

\* "if entity['type'] != 'Project': to_resolve.add(entity)".
needs_resolve(h, top) == h[top].fields["type"] # StrV("Project")

\* "for entity in to_fetch": the walks of the entities todo, one after the
\* other; acc gathers all_nodes and to_resolve.
RECURSIVE walk_all(_, _, _)
walk_all(h, todo, acc) ==
    IF todo = <<>> \/ acc.err # "ok" THEN acc
    ELSE LET w == walk(h, todo[1], acc.nodes \cup {todo[1]}, {todo[1]})
         IN  walk_all(h, Tail(todo),
                      [err |-> w.err, nodes |-> w.nodes,
                       to_resolve |-> IF w.err = "ok" /\ needs_resolve(h, w.top)
                                      THEN acc.to_resolve \cup {w.top}
                                      ELSE acc.to_resolve])

\* The entities of to_resolve of one type.
OfType(h, S, type_) == {o \in S : h[o].fields["type"] = type_}

\* "max(by_type.iteritems(), key=lambda x: len(x[1]))": a type with the most
\* entities; between equals the dict order decides, here the order pick.
max_type(h, to_resolve, pick) ==
    LET best == {i \in 1..Len(pick) :
                    /\ OfType(h, to_resolve, pick[i]) # {}
                    /\ \A j \in 1..Len(pick) :
                          Cardinality(OfType(h, to_resolve, pick[j]))
                             <= Cardinality(OfType(h, to_resolve, pick[i]))}
    IN  pick[CHOOSE i \in best : \A j \in best : i <= j]

\* The parent link the server holds for an entity.
server_parent(key) ==
    CASE key.type = StrV("Shot") -> Minimal("Sequence", 1)
      [] key.type = StrV("Sequence") -> Minimal("Project", 1)
      [] OTHER -> NoneV

\* shotgun.find(type_, [['id', 'in'] + ids], [field]): the records of the
\* live entities asked for; nulls are the keys whose field is null on the
\* server.
shotgun_find_in(srv, nulls, type_, ids, field) ==
    LET keys == KeySeq({key \in srv : key.type = type_ /\ key.id \in ids})
    IN  [i \in 1..Len(keys) |->
            DictV(Put([type |-> keys[i].type, id |-> keys[i].id], field,
                      IF keys[i] \in nulls THEN NoneV ELSE server_parent(keys[i])))]

\* Session.find(type_, filters, fields): every record merged with over=True.
find_in(st, srv, nulls, type_, ids, field) ==
    Rebuilt(merge_seq(st, shotgun_find_in(srv, nulls, type_, ids, field), 1, <<>>,
                      BoolV(TRUE), NoneV, 0, <<>>), "list")

IdsOf(h, S) == {h[o].fields["id"] : o \in S}

Found(l) == {l[i].o : i \in 1..Len(l)}

RECURSIVE heirarchy_loop(_, _, _, _, _, _, _, _, _)
RECURSIVE heirarchy_walked(_, _, _, _, _, _, _, _)
RECURSIVE heirarchy_find(_, _, _, _, _, _, _, _, _, _)
RECURSIVE heirarchy_found(_, _, _, _, _, _, _, _, _, _)

\* The body of "while to_fetch or to_resolve", loop_count rounds in.
heirarchy_loop(st, srv, nulls, pick, to_fetch, to_resolve, all_nodes, loop_count, reqs) ==
    IF to_fetch = {} /\ to_resolve = {} THEN OkR(st, SetV(all_nodes), reqs)
    ELSE IF loop_count > 20 THEN RaiseR(st, "RuntimeError", reqs)
    ELSE heirarchy_walked(walk_all(st.heap, KeySeq(to_fetch),
                                   [err |-> "ok", nodes |-> all_nodes,
                                    to_resolve |-> to_resolve]),
                          st, srv, nulls, pick, to_fetch, loop_count, reqs)

\* After the walks w: "There is nothing new to fetch; bail!", or else the
\* type with the most entities is picked.
heirarchy_walked(w, st, srv, nulls, pick, to_fetch, loop_count, reqs) ==
    IF w.err # "ok" THEN RaiseR(st, w.err, reqs)
    ELSE IF w.to_resolve = {} THEN OkR(st, SetV(w.nodes), reqs)
    ELSE heirarchy_find(st, srv, nulls, pick, w.to_resolve, w.nodes \cup w.to_resolve,
                        loop_count + 1, reqs,
                        max_type(st.heap, w.to_resolve, pick),
                        OfType(st.heap, w.to_resolve, max_type(st.heap, w.to_resolve, pick)))

\* "Fetch the parent names" of the entities to_fetch, all of the type type_.
heirarchy_find(st, srv, nulls, pick, to_resolve, all_nodes, loop_count, reqs, type_, to_fetch) ==
    heirarchy_found(find_in(st, srv, nulls, type_, IdsOf(st.heap, to_fetch),
                            parent_fields(type_).s),
                    srv, nulls, pick, to_fetch, to_resolve \ to_fetch, all_nodes, loop_count,
                    Append(reqs, [type |-> type_, ids |-> IdsOf(st.heap, to_fetch)]),
                    parent_fields(type_).s)

\* After self.find: f is its result, to_fetch the entities asked for.
heirarchy_found(f, srv, nulls, pick, to_fetch, to_resolve, all_nodes, loop_count, reqs, parent_name) ==
    IF f.err # "ok" THEN RaiseR(f.st, f.err, reqs)
    ELSE IF \E o \in Found(f.val.l) :
                ~Truthy(get(f.st.heap, f.st.heap[o].fields, parent_name, NoneV))
    THEN RaiseR(f.st, "ValueError", reqs)
    ELSE IF to_fetch \ Found(f.val.l) # {}
    THEN RaiseR(f.st, "EntityNotFoundError", reqs)
    ELSE heirarchy_loop(f.st, srv, nulls, pick, to_fetch, to_resolve, all_nodes,
                        loop_count, reqs)

\* Session.fetch_heirarchy(to_fetch).
fetch_heirarchy(st, srv, nulls, pick, to_fetch) ==
    heirarchy_loop(st, srv, nulls, pick, to_fetch, {}, {}, 0, <<>>)

\* The record of an operation that reports its requests: self holds the
\* entities given and data the requests sent.
OpR(op, self, flag, r) ==
    [op |-> op, self |-> self, data |-> [k |-> "requests", l |-> r.reqs], over |-> flag,
     created_at |-> NoneV, err |-> r.err, ret |-> r.val]

MaxHSteps == 8

HKeys == {Key("Shot", i) : i \in Ids} \cup {Key("Sequence", 1), Key("Project", 1)}

\* Session.merge of the minimal record of a Shot, a Sequence or a Project.
RegisterH ==
    \E key \in HKeys :
        LET r == merge(St(cache, heap), DictV(key), NoneV, NoneV, 0, <<>>)
        IN  /\ steps < MaxHSteps
            /\ steps' = steps + 1
            /\ cache' = r.st.cache
            /\ heap' = r.st.heap
            /\ last' = Op("merge", NoneV, DictV(key), NoneV, NoneV, r)
            /\ UNCHANGED server

\* The instances a parent field of self is pointed at: a Shot at a Sequence
\* or at a Shot, a Sequence at a Project.
ParentTargets(self) ==
    {o \in Oids : \/ self.t = StrV("Shot") /\ o.t \in {StrV("Sequence"), StrV("Shot")}
                  \/ self.t = StrV("Sequence") /\ o.t = StrV("Project")}

\* Entity.update({parent field: instance}).
ParentUpdate ==
    \E self \in Oids : \E o \in ParentTargets(self) :
        LET x == DictV(Put(EmptyMap, parent_fields(self.t).s, EntV(o)))
            r == _update(St(cache, heap), self, EntV(self), x, NoneV, NoneV,
                         <<parent_fields(self.t).s>>)
        IN  /\ steps < MaxHSteps
            /\ steps' = steps + 1
            /\ cache' = r.st.cache
            /\ heap' = r.st.heap
            /\ last' = Op("update", self, x, NoneV, NoneV, r)
            /\ UNCHANGED server

\* Another client retires Shot 1 on the server.
ServerRetire ==
    \E key \in server :
        /\ key = Key("Shot", 1)
        /\ server' = server \ {key}
        /\ UNCHANGED <<cache, heap, steps, last>>

\* Two orders in which a dict keyed by type can be iterated.
Picks ==
    {<<StrV("Shot"), StrV("Sequence"), StrV("Project")>>,
     <<StrV("Project"), StrV("Sequence"), StrV("Shot")>>}

\* The arguments of fetch_heirarchy: at most MaxFetch entities.
MaxFetch == 2

ToFetch == {S \in SUBSET Oids : Cardinality(S) <= MaxFetch}

\* Session.fetch_heirarchy(to_fetch).
FetchHeirarchy ==
    \E to_fetch \in ToFetch, pick \in Picks, nulls \in {{}, HKeys} :
        LET r == fetch_heirarchy(St(cache, heap), server, nulls, pick, to_fetch)
        IN  /\ steps < MaxHSteps
            /\ steps' = steps + 1
            /\ cache' = r.st.cache
            /\ heap' = r.st.heap
            /\ last' = OpR("fetch_heirarchy", SetV(to_fetch), SetV(nulls), r)
            /\ UNCHANGED server

InitH ==
    /\ cache = EmptyMap
    /\ heap = EmptyMap
    /\ server = HKeys
    /\ steps = 0
    /\ last = Op("init", NoneV, NoneV, NoneV, NoneV, Ok(St(EmptyMap, EmptyMap), NoneV))

NextH ==
    \/ RegisterH
    \/ ParentUpdate
    \/ ServerRetire
    \/ FetchHeirarchy

SpecH == InitH /\ [][NextH]_vars

\* Following parent() from o reaches a Project within n links, reading
\* cached fields only.
RECURSIVE ReachesRoot(_, _, _)
ReachesRoot(h, o, n) ==
    IF h[o].fields["type"] = StrV("Project") THEN TRUE
    ELSE IF n = 0 \/ parent(h, o).k # "ent" THEN FALSE
    ELSE ReachesRoot(h, parent(h, o).o, n - 1)

\* o and the instances on its chain of cached parents, n links up.
RECURSIVE Chain(_, _, _)
Chain(h, o, n) ==
    IF n = 0 \/ parent(h, o).k # "ent" THEN {o}
    ELSE {o} \cup Chain(h, parent(h, o).o, n - 1)

FetchedHeirarchy == last.op = "fetch_heirarchy" /\ last.err = "ok"

(***************************************************************************)
(* C12.  After fetch_heirarchy(E) returns, following parent() from every   *)
(* entity of E reaches a Project on cached fields alone, entities with the *)
(* same parent (type, id) hold the identical parent instance, and the      *)
(* collection returned holds every entity of E and every ancestor on those *)
(* chains, no two of its members being the same entity.                    *)
(***************************************************************************)
C12_HeirarchyCached ==
    FetchedHeirarchy =>
        /\ \A e \in last.self.s :
              /\ ReachesRoot(heap, e, Cardinality(Oids))
              /\ Chain(heap, e, Cardinality(Oids)) \subseteq last.ret.s
        /\ \A e1, e2 \in last.ret.s :
              /\ (parent(heap, e1).k = "ent" /\ parent(heap, e2).k = "ent"
                  /\ cache_key(heap[parent(heap, e1).o].fields, parent(heap, e1).o)
                       = cache_key(heap[parent(heap, e2).o].fields, parent(heap, e2).o))
                    => parent(heap, e1).o = parent(heap, e2).o
              /\ cache_key(heap[e1].fields, e1) = cache_key(heap[e2].fields, e2) => e1 = e2

\* C12 witness: fetch_heirarchy has returned for two Shots that share their
\* Sequence, whose parent is a Project.
C12_Witness ==
    /\ FetchedHeirarchy
    /\ \E e1, e2 \in last.self.s :
          /\ e1 # e2
          /\ e1.t = StrV("Shot") /\ e2.t = StrV("Shot")
          /\ parent(heap, e1).k = "ent"
          /\ parent(heap, e1) = parent(heap, e2)
          /\ parent(heap, e1).o.t = StrV("Sequence")
          /\ parent(heap, parent(heap, e1).o).k = "ent"
          /\ parent(heap, parent(heap, e1).o).o.t = StrV("Project")
          /\ Cardinality(last.ret.s) = 4

(***************************************************************************)
(* C13.  fetch_heirarchy terminates, by returning or by raising, whatever  *)
(* the start entities, the cache and the server hold, cached parent links  *)
(* that form a cycle included.                                             *)
(***************************************************************************)
C13_HeirarchyTerminates ==
    last.op = "fetch_heirarchy" => last.err # "nontermination"

\* The last request of the operation, the one whose response ended it.
LastRequest == last.data.l[Len(last.data.l)]

\* The entities of the last request that the server returns, and those
\* among them whose parent field is null.
Returned == {key \in server : key.type = LastRequest.type /\ key.id \in LastRequest.ids}

(***************************************************************************)
(* C14.  fetch_heirarchy raises ValueError when an entity of the response  *)
(* has no value for its parent field, raises the distinct                  *)
(* EntityNotFoundError when a requested id is absent from the response,    *)
(* and never requests a Project.                                           *)
(***************************************************************************)
C14_HeirarchyErrors ==
    (last.op = "fetch_heirarchy" /\ last.data.l # <<>>) =>
        /\ \A i \in 1..Len(last.data.l) : last.data.l[i].type # StrV("Project")
        /\ (Returned \cap last.over.s # {}) => last.err = "ValueError"
        /\ (Returned \cap last.over.s = {} /\ Cardinality(Returned) < Cardinality(LastRequest.ids))
              => last.err = "EntityNotFoundError"

(***************************************************************************)
(* Session._fetch, Session.fetch, Session.filter_exists, Entity.exists.    *)
(***************************************************************************)
\* shotgun.find(type_, [['id', 'in'] + ids], fields): the records of the
\* live entities asked for, with the fields asked for; the server holds 1
\* for every field.
shotgun_find_fields(srv, type_, ids, fields) ==
    LET keys == KeySeq({key \in srv : key.type = type_ /\ key.id \in ids})
    IN  [i \in 1..Len(keys) |->
            DictV([f \in {"type", "id"} \cup {fields[n] : n \in 1..Len(fields)} |->
                      IF f \in {"type", "id"} THEN keys[i][f] ELSE IntV(1)])]

\* Session.find(type_, [['id', 'in'] + ids], fields).
find_fields(st, srv, type_, ids, fields) ==
    Rebuilt(merge_seq(st, shotgun_find_fields(srv, type_, ids, fields), 1, <<>>,
                      BoolV(TRUE), NoneV, 0, <<>>), "list")

\* "for e in entities: e._exists = e['id'] in found_ids".
marked(h, entities, found_ids) ==
    [o \in DOMAIN h |->
        IF o \in entities
        THEN [h[o] EXCEPT !.exists = IF h[o].fields["id"] \in found_ids
                                     THEN "exists" ELSE "retired"]
        ELSE h[o]]

\* Session._fetch, "ids_": the ids of the entities that lack a field, or of
\* all of them when forced.
fetch_ids(h, entities, fields, force) ==
    {h[e].fields["id"] : e \in {x \in entities :
        force \/ \E i \in 1..Len(fields) : ~contains(h, h[x].fields, fields[i])}}

\* Session._fetch after self.find: res is its result, ids the ids asked for.
\* The ids that are not missing are those found, and the ids never asked
\* for.
fetched(res, entities, ids, reqs) ==
    IF res.err # "ok" THEN RaiseR(res.st, res.err, reqs)
    ELSE IF ids \ IdsOf(res.st.heap, Found(res.val.l)) # {}
    THEN RaiseR(St(res.st.cache,
                   marked(res.st.heap, entities,
                          IdsOf(res.st.heap, entities) \
                             (ids \ IdsOf(res.st.heap, Found(res.val.l))))),
                "EntityNotFoundError", reqs)
    ELSE OkR(St(res.st.cache, marked(res.st.heap, entities, IdsOf(res.st.heap, entities))),
             NoneV, reqs)

\* Session._fetch(entities, fields, force).
_fetch(st, srv, entities, fields, force, reqs) ==
    IF Cardinality({st.heap[e].fields["type"] : e \in entities}) > 1
    THEN RaiseR(st, "ValueError", reqs)
    ELSE IF fetch_ids(st.heap, entities, fields, force) = {} THEN OkR(st, NoneV, reqs)
    ELSE fetched(find_fields(st, srv, (CHOOSE t \in {st.heap[e].fields["type"] : e \in entities} : TRUE),
                             fetch_ids(st.heap, entities, fields, force), fields),
                 entities, fetch_ids(st.heap, entities, fields, force),
                 Append(reqs, [type |-> (CHOOSE t \in {st.heap[e].fields["type"] : e \in entities} : TRUE),
                               ids |-> fetch_ids(st.heap, entities, fields, force)]))

\* Session.fetch(to_fetch, fields, force): _fetch for one type after the
\* other, in the order pick of the dict by_type.
RECURSIVE fetch(_, _, _, _, _, _, _)
fetch(r, srv, to_fetch, fields, force, pick, i) ==
    IF r.err # "ok" \/ i > Len(pick) THEN r
    ELSE IF OfType(r.st.heap, to_fetch, pick[i]) = {}
    THEN fetch(r, srv, to_fetch, fields, force, pick, i + 1)
    ELSE fetch(_fetch(r.st, srv, OfType(r.st.heap, to_fetch, pick[i]), fields, force, r.reqs),
               srv, to_fetch, fields, force, pick, i + 1)

\* Entity.fetch(field, default, force): Session.fetch([self], [field]) and
\* then self.get(field, default).
entity_fetched(r, self, field, default) ==
    IF r.err # "ok" THEN r
    ELSE OkR(r.st, get(r.st.heap, r.st.heap[self].fields, field, default), r.reqs)

\* Session.filter_exists, the lookup of one type: all the given entities of
\* the type are asked for and all are marked.
exists_found(res, sub_entities, reqs) ==
    IF res.err # "ok" THEN RaiseR(res.st, res.err, reqs)
    ELSE OkR(St(res.st.cache,
                marked(res.st.heap, sub_entities, IdsOf(res.st.heap, Found(res.val.l)))),
             NoneV, reqs)

\* Session.filter_exists, "for type_, sub_entities in by_type.iteritems()".
RECURSIVE check_exists(_, _, _, _, _, _)
check_exists(r, srv, entities, force, pick, i) ==
    IF r.err # "ok" \/ i > Len(pick) THEN r
    ELSE IF OfType(r.st.heap, entities, pick[i]) # {}
            /\ (force \/ \E e \in OfType(r.st.heap, entities, pick[i]) :
                            r.st.heap[e].exists = "unknown")
    THEN check_exists(
            exists_found(
                find_fields(r.st, srv, pick[i],
                            IdsOf(r.st.heap, OfType(r.st.heap, entities, pick[i])),
                            <<>>),
                OfType(r.st.heap, entities, pick[i]),
                Append(r.reqs, [type |-> pick[i],
                                ids |-> IdsOf(r.st.heap, OfType(r.st.heap, entities, pick[i]))])),
            srv, entities, force, pick, i + 1)
    ELSE check_exists(r, srv, entities, force, pick, i + 1)

\* "return set(e for e in entities if (e._exists or e._exists is None))".
not_retired(r, entities) ==
    IF r.err # "ok" THEN r
    ELSE OkR(r.st, SetV({e \in entities : r.st.heap[e].exists # "retired"}), r.reqs)

\* Session.filter_exists(entities, check, force).
filter_exists(st, srv, entities, check, force, pick) ==
    IF check
    THEN not_retired(check_exists(OkR(st, NoneV, <<>>), srv, entities, force, pick, 1), entities)
    ELSE not_retired(OkR(st, NoneV, <<>>), entities)

\* Entity.exists(check, force): False without id or type, else
\* filter_exists([self]) and then self._exists.
exists(st, srv, self, check, force, pick) ==
    IF get(st.heap, st.heap[self].fields, "id", NoneV) = NoneV
       \/ get(st.heap, st.heap[self].fields, "type", NoneV) = NoneV
    THEN OkR(st, BoolV(FALSE), <<>>)
    ELSE LET r == filter_exists(st, srv, {self}, check, force, pick)
         IN  IF r.err # "ok" THEN r
             ELSE OkR(r.st,
                      IF r.st.heap[self].exists = "unknown" THEN NoneV
                      ELSE BoolV(r.st.heap[self].exists = "exists"),
                      r.reqs)

(***************************************************************************)
(* The session that fetches fields, checks existence and deletes.          *)
(***************************************************************************)
\* Entity.update({'code': 1}).
CodeUpdate ==
    \E self \in Oids :
        LET x == DictV([code |-> IntV(1)])
            r == _update(St(cache, heap), self, EntV(self), x, NoneV, NoneV, <<"code">>)
        IN  /\ Step(r)
            /\ last' = Op("update", self, x, NoneV, NoneV, r)
            /\ UNCHANGED server

\* Session.fetch(to_fetch, ['code'], force).
Fetch ==
    \E to_fetch \in ToFetch \ {{}}, force \in BOOLEAN, pick \in Picks :
        LET r == fetch(OkR(St(cache, heap), NoneV, <<>>), server, to_fetch, <<"code">>,
                       force, pick, 1)
        IN  /\ Step(r)
            /\ last' = OpR("fetch", SetV(to_fetch), [force |-> force, pick |-> pick], r)
            /\ UNCHANGED server

\* Entity.fetch('code', None, force).
EntityFetch ==
    \E self \in Oids, force \in BOOLEAN :
        LET r == entity_fetched(fetch(OkR(St(cache, heap), NoneV, <<>>), server, {self},
                                      <<"code">>, force, <<self.t>>, 1),
                                self, "code", NoneV)
        IN  /\ Step(r)
            /\ last' = OpR("entity_fetch", self, [force |-> force], r)
            /\ UNCHANGED server

\* Session.filter_exists(entities, check, force).
FilterExists ==
    \E entities \in ToFetch \ {{}}, check \in BOOLEAN, force \in BOOLEAN, pick \in Picks :
        LET r == filter_exists(St(cache, heap), server, entities, check, force, pick)
        IN  /\ Step(r)
            /\ last' = OpR("filter_exists", SetV(entities),
                           [check |-> check, force |-> force, pick |-> pick], r)
            /\ UNCHANGED server

\* Entity.exists(check, force).
Exists ==
    \E self \in Oids, check \in BOOLEAN, force \in BOOLEAN :
        LET r == exists(St(cache, heap), server, self, check, force, <<self.t>>)
        IN  /\ Step(r)
            /\ last' = OpR("exists", self, [check |-> check, force |-> force], r)
            /\ UNCHANGED server

\* Session.delete(type, id): the entity is merged from its type and id, then
\* deleted on the server and marked.
DeleteById ==
    \E key \in server :
        LET r == merge(St(cache, heap), DictV(key), NoneV, NoneV, 0, <<>>)
        IN  /\ steps < MaxSteps
            /\ steps' = steps + 1
            /\ cache' = r.st.cache
            /\ heap' = IF r.err = "ok"
                       THEN [r.st.heap EXCEPT ![r.val.o].exists = "retired"]
                       ELSE r.st.heap
            /\ server' = IF r.err = "ok" THEN server \ {key} ELSE server
            /\ last' = Op("delete", DictV(key), NoneV, NoneV, NoneV,
                          IF r.err = "ok" THEN Ok(r.st, NoneV) ELSE r)

NextF ==
    \/ Register
    \/ CodeUpdate
    \/ LinkUpdate
    \/ ServerRetire
    \/ Fetch
    \/ EntityFetch
    \/ FilterExists
    \/ Exists
    \/ Delete
    \/ DeleteById

SpecF == Init /\ [][NextF]_vars

\* A step that is a call of Session.fetch.
FetchStep == steps' = steps + 1 /\ last'.op = "fetch"

\* The ids of a request that the response of the server omits.
Omitted(q) == {i \in q.ids : [type |-> q.type, id |-> i] \notin server}

\* The types of the given entities that Session.fetch has ids to ask for.
TypesToFetch(h, to_fetch, force) ==
    {t \in {e.t : e \in to_fetch} : fetch_ids(h, OfType(h, to_fetch, t), <<"code">>, force) # {}}

(***************************************************************************)
(* C15.  When Session.fetch asks for ids of one type and the response      *)
(* omits some of them, the call raises EntityNotFoundError, the entities   *)
(* of the omitted ids are marked retired, and the entities of the other    *)
(* ids asked for hold the fetched field.                                   *)
(***************************************************************************)
C15_OmittedRetired ==
    [][(FetchStep /\ Cardinality({e.t : e \in last'.self.s}) = 1) =>
          \A n \in 1..Len(last'.data.l) :
              Omitted(last'.data.l[n]) # {} =>
                  /\ last'.err = "EntityNotFoundError"
                  /\ \A e \in last'.self.s :
                        /\ e.i \in Omitted(last'.data.l[n]) => heap'[e].exists = "retired"
                        /\ e.i \in last'.data.l[n].ids \ Omitted(last'.data.l[n])
                              => "code" \in DOMAIN heap'[e].fields]_vars

(***************************************************************************)
(* C16.  When Session.fetch over entities of several types raises          *)
(* EntityNotFoundError for an id of one type, every type that had ids to   *)
(* ask for has been asked for, whatever the order of the types.            *)
(***************************************************************************)
C16_BatchNotAborted ==
    [][(FetchStep /\ last'.err = "EntityNotFoundError") =>
          \A t \in TypesToFetch(heap, last'.self.s, last'.over.force) :
              \E n \in 1..Len(last'.data.l) : last'.data.l[n].type = t]_vars

\* A step that fetches the field of entities that are all retired on the
\* server, and has ids to ask for.
FetchOfRetired ==
    /\ steps' = steps + 1
    /\ \/ last'.op = "fetch" /\ TypesToFetch(heap, last'.self.s, last'.over.force) # {}
          /\ \A e \in last'.self.s : [type |-> e.t, id |-> e.i] \notin server
       \/ last'.op = "entity_fetch"
          /\ TypesToFetch(heap, {last'.self}, last'.over.force) # {}
          /\ [type |-> last'.self.t, id |-> last'.self.i] \notin server

(***************************************************************************)
(* C17.  Fetching a field of an entity that is retired on the server does  *)
(* not raise: Entity.fetch returns the default None, Session.fetch         *)
(* returns, and the entity is marked retired.                              *)
(***************************************************************************)
C17_RetiredFetchReturns ==
    [][FetchOfRetired =>
          /\ last'.err = "ok"
          /\ last'.op = "entity_fetch" =>
                last'.ret = NoneV /\ heap'[last'.self].exists = "retired"
          /\ last'.op = "fetch" =>
                \A e \in last'.self.s : heap'[e].exists = "retired"]_vars

\* A step that is a call of Session.filter_exists.
FilterStep == steps' = steps + 1 /\ last'.op = "filter_exists"

\* The given entities of type t that a lookup is due for: those of unknown
\* existence, or all of them when forced.
Due(h, entities, t, force) ==
    {e \in OfType(h, entities, t) : force \/ h[e].exists = "unknown"}

(***************************************************************************)
(* C18.  After filter_exists(entities, check=True) no given entity is of   *)
(* unknown existence, every entity a lookup asked for is marked existing   *)
(* exactly when the server returned it, and the call returns the given     *)
(* entities that are not marked retired.                                   *)
(***************************************************************************)
C18_ExistenceSettled ==
    [][(FilterStep /\ last'.over.check) =>
          /\ last'.err = "ok"
          /\ \A e \in last'.self.s : heap'[e].exists # "unknown"
          /\ \A n \in 1..Len(last'.data.l) : \A e \in last'.self.s :
                (e.t = last'.data.l[n].type /\ e.i \in last'.data.l[n].ids) =>
                    (heap'[e].exists = "exists" <=> [type |-> e.t, id |-> e.i] \in server)
          /\ last'.ret = SetV({e \in last'.self.s : heap'[e].exists # "retired"})]_vars

(***************************************************************************)
(* C19.  filter_exists with check=True sends exactly one lookup for each   *)
(* type that has a given entity of unknown existence (for each type when   *)
(* forced) and none for another type; a lookup asks for the unknown (or    *)
(* forced) entities only, and an entity of known existence keeps its flag  *)
(* unless forced.  With check=False nothing is sent and no flag changes.   *)
(***************************************************************************)
C19_LookupsPerType ==
    [][FilterStep =>
          IF last'.over.check
          THEN /\ Len(last'.data.l) =
                     Cardinality({t \in {e.t : e \in last'.self.s} :
                                     Due(heap, last'.self.s, t, last'.over.force) # {}})
               /\ \A n \in 1..Len(last'.data.l) :
                     /\ Due(heap, last'.self.s, last'.data.l[n].type, last'.over.force) # {}
                     /\ last'.data.l[n].ids =
                           IdsOf(heap, Due(heap, last'.self.s, last'.data.l[n].type,
                                           last'.over.force))
                     /\ \A m \in 1..Len(last'.data.l) :
                           last'.data.l[m].type = last'.data.l[n].type => m = n
               /\ \A e \in last'.self.s :
                     (heap[e].exists # "unknown" /\ ~last'.over.force)
                        => heap'[e].exists = heap[e].exists
          ELSE /\ last'.data.l = <<>>
               /\ \A e \in Oids : heap'[e].exists = heap[e].exists]_vars

\* A step that is a call of Session.delete that returns.
DeleteStep == steps' = steps + 1 /\ last'.op = "delete" /\ last'.err = "ok"

\* What entity.exists() gives in the state a step leads to.
ExistsAfter(self) == exists(St(cache', heap'), server', self, TRUE, FALSE, <<self.t>>)

(***************************************************************************)
(* C20.  A call of Session.delete that returns leaves the identity map as  *)
(* it was, the deleted entity still filed under its (type, id), leaves     *)
(* the fields and the backref buckets of every entity as they were, and    *)
(* afterwards exists() of the deleted entity is False and sends nothing    *)
(* to the server.                                                          *)
(***************************************************************************)
C20_DeleteKeepsEntity ==
    [][DeleteStep =>
          /\ cache' = cache
          /\ cache'[cache_key(heap'[last'.self].fields, last'.self)] = last'.self
          /\ \A o \in Oids :
                /\ heap'[o].fields = heap[o].fields
                /\ heap'[o].backrefs = heap[o].backrefs
          /\ ExistsAfter(last'.self).err = "ok"
          /\ ExistsAfter(last'.self).val = BoolV(FALSE)
          /\ ExistsAfter(last'.self).reqs = <<>>]_vars

\* A deleted entity that another entity links to and that lists the other
\* in a backref bucket.
C20_Witness ==
    /\ last.op = "delete"
    /\ last.err = "ok"
    /\ last.self \in Oids
    /\ heap[last.self].exists = "retired"
    /\ last.self.t = StrV("Sequence")
    /\ \E o \in Oids \ {last.self} :
          /\ "sg_sequence" \in DOMAIN heap[o].fields
          /\ heap[o].fields["sg_sequence"] = EntV(last.self)
          /\ \E b \in DOMAIN heap[last.self].backrefs : Listed(heap, last.self, b, o)

(***************************************************************************)
(* Session.fetch_core.                                                     *)
(***************************************************************************)
\* "itertools.chain(important_fields_for_all, important_fields.get(type_)
\* or (), important_links.get(type_, {}).iterkeys())" as the sequence the
\* iterator yields.
core_fields(type_) ==
    CASE type_ = StrV("Shot") -> <<"updated_at", "code", "project", "sg_sequence">>
      [] type_ = StrV("Sequence") -> <<"updated_at", "code", "project">>
      [] type_ = StrV("Project") -> <<"updated_at", "name">>
      [] OTHER -> <<"updated_at">>

\* "any(f not in e for f in fields)" on an iterator that stands before
\* fields[i]: the position of the first field that e lacks, or past the end
\* when the iterator runs out.
first_lacking(h, e, fields, i) ==
    IF \E j \in i..Len(fields) : ~contains(h, h[e].fields, fields[j])
    THEN CHOOSE j \in i..Len(fields) :
            /\ ~contains(h, h[e].fields, fields[j])
            /\ \A n \in i..(j - 1) : contains(h, h[e].fields, fields[n])
    ELSE Len(fields) + 1

\* Session._fetch, "for e in entities: if force or any(...): ids_.add" with
\* fields an iterator shared by all entities: each test resumes where the
\* last one stopped.  The ids collected and the position the iterator is
\* left at.
RECURSIVE iter_ids(_, _, _, _, _, _)
iter_ids(h, entities, n, fields, i, ids) ==
    IF n > Len(entities) THEN [ids |-> ids, i |-> i]
    ELSE IF first_lacking(h, entities[n], fields, i) <= Len(fields)
    THEN iter_ids(h, entities, n + 1, fields, first_lacking(h, entities[n], fields, i) + 1,
                  ids \cup {h[entities[n]].fields["id"]})
    ELSE iter_ids(h, entities, n + 1, fields, Len(fields) + 1, ids)

\* Session._fetch(entities, fields) with fields an iterator; c is
\* iter_ids.  self.find receives what is left of the iterator.
_fetch_iter(st, srv, entities, fields, c, reqs) ==
    IF c.ids = {} THEN OkR(st, NoneV, reqs)
    ELSE fetched(find_fields(st, srv, st.heap[entities[1]].fields["type"], c.ids,
                             SubSeq(fields, c.i, Len(fields))),
                 {entities[n] : n \in 1..Len(entities)}, c.ids,
                 Append(reqs, [type |-> st.heap[entities[1]].fields["type"], ids |-> c.ids]))

\* Session.fetch_core(to_fetch): _fetch for one type after the other, in
\* the order pick of the dict by_type; order is the order in which the sets
\* of entities are iterated.
RECURSIVE fetch_core(_, _, _, _, _)
fetch_core(r, srv, order, pick, i) ==
    IF r.err # "ok" \/ i > Len(pick) THEN r
    ELSE IF SelectSeq(order, LAMBDA e : e.t = pick[i]) = <<>>
    THEN fetch_core(r, srv, order, pick, i + 1)
    ELSE fetch_core(_fetch_iter(r.st, srv, SelectSeq(order, LAMBDA e : e.t = pick[i]),
                                core_fields(pick[i]),
                                iter_ids(r.st.heap, SelectSeq(order, LAMBDA e : e.t = pick[i]),
                                         1, core_fields(pick[i]), 1, {}),
                                r.reqs),
                    srv, order, pick, i + 1)

\* Entity.update of all the core fields of the type of self at once.
CoreUpdate ==
    \E self \in Oids :
        LET x == DictV([f \in {core_fields(self.t)[n] : n \in 1..Len(core_fields(self.t))} |->
                           IF f \in {"project", "sg_sequence"} THEN NoneV ELSE IntV(1)])
            r == _update(St(cache, heap), self, EntV(self), x, NoneV, NoneV, core_fields(self.t))
        IN  /\ Step(r)
            /\ last' = Op("update", self, x, NoneV, NoneV, r)
            /\ UNCHANGED server

\* Session.fetch_core(to_fetch).
FetchCore ==
    \E to_fetch \in ToFetch \ {{}}, pick \in Picks :
        \E order \in Perms(to_fetch) :
            LET r == fetch_core(OkR(St(cache, heap), NoneV, <<>>), server, order, pick, 1)
            IN  /\ Step(r)
                /\ last' = OpR("fetch_core", SetV(to_fetch), [order |-> order, pick |-> pick], r)
                /\ UNCHANGED server

NextCore ==
    \/ Register
    \/ CoreUpdate
    \/ ServerRetire
    \/ FetchCore

SpecCore == Init /\ [][NextCore]_vars

(***************************************************************************)
(* C21.  After fetch_core(entities) returns without error, every entity    *)
(* of the batch holds every core field of its type: the fields fetched     *)
(* for all types, the important fields and the important links.            *)
(***************************************************************************)
C21_CoreFieldsHeld ==
    [][(steps' = steps + 1 /\ last'.op = "fetch_core" /\ last'.err = "ok") =>
          \A e \in last'.self.s : \A n \in 1..Len(core_fields(e.t)) :
              contains(heap', heap'[e].fields, core_fields(e.t)[n])]_vars

(***************************************************************************)
(* Session.merge of mappings whose type or id is missing or unset.         *)
(***************************************************************************)
\* Raw mappings with type and id each a set value, None, 0 or absent.
DetachedInputs ==
    {DictV([type |-> t, id |-> i]) : t \in {StrV("Shot"), NoneV}, i \in {IntV(1), IntV(0), NoneV}}
    \cup {DictV([type |-> StrV("Shot")]), DictV([id |-> IntV(1)])}

\* Session.merge(data) of such a mapping.
MergeDetached ==
    \E data \in DetachedInputs :
        LET r == merge(St(cache, heap), data, NoneV, NoneV, 0, <<>>)
        IN  /\ Step(r)
            /\ last' = Op("merge", NoneV, data, NoneV, NoneV, r)
            /\ UNCHANGED server

NextDetached == MergeDetached \/ Register

SpecDetached == Init /\ [][NextDetached]_vars

\* The last operation merged a mapping whose type or id is missing or unset.
MergedDetached ==
    /\ last.op = "merge"
    /\ last.data.k = "dict"
    /\ \/ "type" \notin DOMAIN last.data.d
       \/ "id" \notin DOMAIN last.data.d
       \/ ~Truthy(last.data.d["type"])
       \/ ~Truthy(last.data.d["id"])

(***************************************************************************)
(* C22.  Every instance the identity map holds has a type and an id that   *)
(* are set, and a merge of a mapping whose type or id is missing or unset  *)
(* adds no entry to the identity map.                                      *)
(***************************************************************************)
C22_DetachedNotStored ==
    [][/\ \A key \in DOMAIN cache' :
             /\ Truthy(heap'[cache'[key]].fields["type"])
             /\ Truthy(heap'[cache'[key]].fields["id"])
       /\ MergedDetached' => DOMAIN cache' = DOMAIN cache]_vars

(***************************************************************************)
(* Two worker threads of one session.  Session.find(..., async=True) is    *)
(* submitted to the thread pool twice for the same entity; each worker     *)
(* merges the record of the response.  A worker runs under the            *)
(* interpreter lock, which is handed over between bytecodes: the          *)
(* construction of the Entity touches nothing shared and the built-in     *)
(* dict.setdefault on a key of a str and an int is one step.  The state   *)
(* of the two futures is kept in the record of the operation.             *)
(***************************************************************************)
Threads == {1, 2}

\* The futures of the two calls: where each worker stands, the instance it
\* holds after the setdefault, and what it raised.
Futures == last.over

\* Both workers of the last pair of calls are done (or none was started).
Idle == last.op = "async_find" => \A t \in Threads : Futures[t].pc = "done"

\* _submit_concurrent, twice: find(type, [('id', 'is', id)], async=True).
AsyncFind ==
    \E key \in server :
        /\ Idle
        /\ steps < MaxSteps
        /\ steps' = steps + 1
        /\ last' = [op |-> "async_find", self |-> BoolV(key \in DOMAIN cache),
                    data |-> DictV(key),
                    over |-> [t \in Threads |-> [pc |-> "merge", entity |-> NoneV, err |-> "ok"]],
                    created_at |-> NoneV, err |-> "ok", ret |-> NoneV]
        /\ UNCHANGED <<cache, heap, server>>

\* Session._merge in a worker, "new = Entity(...); entity =
\* self._cache.setdefault(new.cache_key, new)".
WorkerRegister ==
    \E t \in Threads :
        LET data == last.data
            oid == NewOid(heap, data.d["type"], data.d["id"])
            key == cache_key(Entity(data.d["type"], data.d["id"]).fields, oid)
            c == cache_setdefault(cache, key, oid)
        IN  /\ last.op = "async_find"
            /\ Futures[t].pc = "merge"
            /\ cache' = c
            /\ heap' = IF c[key] = oid
                       THEN Put(heap, oid, Entity(data.d["type"], data.d["id"]))
                       ELSE heap
            /\ last' = [last EXCEPT !.over[t] = [pc |-> "update", entity |-> EntV(c[key]),
                                                 err |-> "ok"]]
            /\ UNCHANGED <<server, steps>>

\* Session._merge in a worker, "entity._update(data, over, created_at,
\* depth + 1, memo); return entity", with over=True as Session.find passes.
WorkerUpdate ==
    \E t \in Threads :
        LET r == _update(St(cache, heap), Futures[t].entity.o, last.data, BoolV(TRUE), NoneV,
                         IntV(2), <<>>)
        IN  /\ last.op = "async_find"
            /\ Futures[t].pc = "update"
            /\ cache' = r.st.cache
            /\ heap' = r.st.heap
            /\ last' = [last EXCEPT !.over[t] = [pc |-> "done", entity |-> @.entity,
                                                 err |-> r.err]]
            /\ UNCHANGED <<server, steps>>

NextAsync == AsyncFind \/ WorkerRegister \/ WorkerUpdate

SpecAsync == Init /\ [][NextAsync]_vars

(***************************************************************************)
(* C23.  When two workers of one session have merged the record of the     *)
(* same entity, not cached before, the identity map holds one instance     *)
(* for its key and both calls have returned that instance.                 *)
(***************************************************************************)
C23_SingleWinner ==
    (last.op = "async_find" /\ last.self = BoolV(FALSE)
        /\ \A t \in Threads : Futures[t].pc = "done") =>
        /\ RecordKey(last.data) \in DOMAIN cache
        /\ \A t \in Threads :
              /\ Futures[t].err = "ok"
              /\ Futures[t].entity = EntV(cache[RecordKey(last.data)])

(***************************************************************************)
(* The bulk operations behind _assert_ownership, and a second session.     *)
(* An instance constructed by the second session carries that session in   *)
(* its identity (field s); the identity map of the second session is kept  *)
(* in cache under keys that name the session.                              *)
(***************************************************************************)
\* "e.session is not self", self being the first session.
Foreign(e) == "s" \in DOMAIN e

\* Session.fetch_backrefs(to_fetch, backref_type, field): one find per type
\* of the given entities, for the entities of backref_type whose field
\* links to one of them.
RECURSIVE fetch_backrefs(_, _, _, _, _, _)
fetch_backrefs(r, srv, to_fetch, backref_type, pick, i) ==
    IF r.err # "ok" \/ i > Len(pick) THEN r
    ELSE IF OfType(r.st.heap, to_fetch, pick[i]) = {}
    THEN fetch_backrefs(r, srv, to_fetch, backref_type, pick, i + 1)
    ELSE LET asked == OfType(r.st.heap, to_fetch, pick[i])
             ids == {key.id : key \in {x \in srv :
                        /\ x.type = backref_type
                        /\ \E e \in asked : server_parent(x) =
                              DictV([type |-> r.st.heap[e].fields["type"],
                                     id |-> r.st.heap[e].fields["id"]])}}
             f == find_fields(r.st, srv, backref_type, ids, <<>>)
             reqs == Append(r.reqs, [type |-> backref_type, ids |-> IdsOf(r.st.heap, asked)])
         IN  fetch_backrefs(IF f.err # "ok" THEN RaiseR(f.st, f.err, reqs)
                            ELSE OkR(f.st, NoneV, reqs),
                            srv, to_fetch, backref_type, pick, i + 1)

\* The functions decorated with _assert_ownership.
BulkOps == {"fetch", "fetch_core", "fetch_heirarchy", "fetch_backrefs", "filter_exists"}

\* func(self, entities, ...) for the decorated function func.
bulk(func, st, srv, entities, pick) ==
    LET to_fetch == {entities[n] : n \in 1..Len(entities)}
        r == OkR(st, NoneV, <<>>)
    IN  CASE func = "fetch" -> fetch(r, srv, to_fetch, <<"code">>, FALSE, pick, 1)
          [] func = "fetch_core" -> fetch_core(r, srv, entities, pick, 1)
          [] func = "fetch_heirarchy" -> fetch_heirarchy(st, srv, {}, pick, to_fetch)
          [] func = "fetch_backrefs" -> fetch_backrefs(r, srv, to_fetch, StrV("Shot"), pick, 1)
          [] OTHER -> filter_exists(st, srv, to_fetch, TRUE, FALSE, pick)

\* A check that looks at the first entity of the list only.
assert_ownership_first(func, st, srv, entities, pick) ==
    IF Foreign(entities[1]) THEN RaiseR(st, "ValueError", <<>>)
    ELSE bulk(func, st, srv, entities, pick)

\* _assert_ownership, _wrapped(self, entities, ...): every entity of the
\* list is tested before func is called.
assert_ownership(func, st, srv, entities, pick) ==
    IF \E n \in 1..Len(entities) : Foreign(entities[n]) THEN RaiseR(st, "ValueError", <<>>)
    ELSE bulk(func, st, srv, entities, pick)

\* The second session registers an entity of its own: a bare instance under
\* its key in the map of that session.
RegisterForeign ==
    \E key \in Keys :
        LET at == [session |-> 2, type |-> key.type, id |-> key.id]
            oid == [t |-> key.type, i |-> key.id, n |-> 1, s |-> 2]
        IN  /\ at \notin DOMAIN cache
            /\ steps < MaxSteps
            /\ steps' = steps + 1
            /\ cache' = Put(cache, at, oid)
            /\ heap' = Put(heap, oid, Entity(key.type, key.id))
            /\ last' = Op("merge", IntV(2), DictV(key), NoneV, NoneV, Raise(St(cache, heap), "TypeError"))
            /\ UNCHANGED server

\* The lists of at most MaxFetch distinct entities, of any session.
EntityLists == UNION {Perms(S) : S \in ToFetch \ {{}}}

\* A call of a bulk operation of the first session.
BulkCall ==
    \E func \in BulkOps, entities \in EntityLists, pick \in Picks :
        LET r == assert_ownership(func, St(cache, heap), server, entities, pick)
        IN  /\ Step(r)
            /\ last' = OpR(func, ListV(entities), [pick |-> pick], r)
            /\ UNCHANGED server

NextOwned == Register \/ RegisterForeign \/ ServerRetire \/ BulkCall

SpecOwned == Init /\ [][NextOwned]_vars

(***************************************************************************)
(* C24.  A bulk operation (fetch, fetch_core, fetch_heirarchy,             *)
(* fetch_backrefs, filter_exists) whose list holds an entity of another    *)
(* session raises ValueError, sends no request and leaves every entity,    *)
(* existence flag and identity map as they were, wherever the foreign      *)
(* entity stands in the list.                                              *)
(***************************************************************************)
C24_OwnershipChecked ==
    [][(steps' = steps + 1 /\ last'.op \in BulkOps
          /\ \E n \in 1..Len(last'.self.l) : Foreign(last'.self.l[n])) =>
          /\ last'.err = "ValueError"
          /\ last'.data.l = <<>>
          /\ cache' = cache
          /\ heap' = heap]_vars

\* A bulk operation refused for the foreign entity that stands second in
\* its list, behind an entity of the session whose existence is unknown and
\* which is retired on the server.
C24_Witness ==
    /\ last.op \in BulkOps
    /\ last.err = "ValueError"
    /\ Len(last.self.l) = 2
    /\ ~Foreign(last.self.l[1])
    /\ Foreign(last.self.l[2])
    /\ heap[last.self.l[1]].exists = "unknown"
    /\ cache_key(heap[last.self.l[1]].fields, last.self.l[1]) \notin server

(***************************************************************************)
(* C25.  Session.merge(e) of an Entity e that the session owns returns e   *)
(* itself and changes nothing: the fields, the backref buckets and the     *)
(* existence flag of every entity and the identity map are as before.      *)
(***************************************************************************)
C25_OwnedPassThrough ==
    [][(steps' = steps + 1 /\ last'.op = "merge" /\ last'.data.k = "ent") =>
          /\ last'.err = "ok"
          /\ last'.ret = last'.data
          /\ cache' = cache
          /\ heap' = heap]_vars

\* An Entity that holds a field and is known to be retired has been merged.
C25_Witness ==
    /\ last.op = "merge"
    /\ last.data.k = "ent"
    /\ "code" \in DOMAIN heap[last.data.o].fields
    /\ heap[last.data.o].exists = "retired"

(***************************************************************************)
(* Session.update and Session.batch.                                       *)
(***************************************************************************)
\* shotgun.update(type_, id_, data), and each result of shotgun.batch: the
\* record of the entity with the fields written.
updated_record(type_, id_, data) ==
    DictV([f \in {"type", "id"} \cup DOMAIN data |->
              IF f = "type" THEN type_ ELSE IF f = "id" THEN id_ ELSE data[f]])

\* Session.update(type_, ids, data): the batch form merges every result of
\* shotgun.batch with over=True, the single form the result of
\* shotgun.update.
session_update(st, type_, ids, data, do_batch) ==
    IF do_batch
    THEN Rebuilt(merge_seq(st, [n \in 1..Len(ids) |-> updated_record(type_, ids[n], data)],
                           1, <<>>, BoolV(TRUE), NoneV, 0, <<>>), "list")
    ELSE merge(st, updated_record(type_, ids[1], data), BoolV(TRUE), NoneV, 0, <<>>)

\* The entities handed to Session.update: one, or a list of one type, all
\* live on the server.
UpdateTargets ==
    {l \in UNION {Perms(S) : S \in SUBSET Oids \ {{}}} :
        /\ Len(l) <= MaxFetch
        /\ \A n \in 1..Len(l) : l[n].t = l[1].t /\ Key(l[n].t.s, l[n].i.n) \in server}

\* Session.update(entity, code=v, updated_at=1) and
\* Session.update([entities], code=v, updated_at=1).
SessionUpdate ==
    \E l \in UpdateTargets, v \in Vals, do_batch \in BOOLEAN :
        LET data == [code |-> IntV(v), updated_at |-> IntV(1)]
            r == session_update(St(cache, heap), l[1].t, [n \in 1..Len(l) |-> l[n].i], data,
                                do_batch)
        IN  /\ do_batch \/ Len(l) = 1
            /\ Step(r)
            /\ last' = Op("session_update", ListV(l), DictV(data), BoolV(do_batch), NoneV, r)
            /\ UNCHANGED server

\* Entity.update(code=1, updated_at=2): a cached updated_at newer than the
\* one Session.update returns.
NewerUpdate ==
    \E self \in Oids :
        LET x == DictV([code |-> IntV(1), updated_at |-> IntV(2)])
            r == _update(St(cache, heap), self, EntV(self), x, NoneV, NoneV,
                         <<"code", "updated_at">>)
        IN  /\ Step(r)
            /\ last' = Op("update", self, x, NoneV, NoneV, r)
            /\ UNCHANGED server

NextUpdate == Register \/ NewerUpdate \/ SessionUpdate

SpecUpdate == Init /\ [][NextUpdate]_vars

(***************************************************************************)
(* C26.  Session.update of entities that the server updates returns, the   *)
(* canonical instances, the same as before, hold the returned values       *)
(* whatever their cached updated_at, and the batch form returns the        *)
(* canonical instances in the order of the request.                        *)
(***************************************************************************)
C26_UpdateMergedAlways ==
    [][(steps' = steps + 1 /\ last'.op = "session_update") =>
          /\ last'.err = "ok"
          /\ cache' = cache
          /\ \A n \in 1..Len(last'.self.l) :
                \A f \in {"code", "updated_at"} :
                    /\ f \in DOMAIN heap'[last'.self.l[n]].fields
                    /\ heap'[last'.self.l[n]].fields[f] = last'.data.d[f]
          /\ last'.over = BoolV(TRUE) =>
                last'.ret = ListV([n \in 1..Len(last'.self.l) |-> EntV(last'.self.l[n])])]_vars

(***************************************************************************)
(* Entity.as_dict.                                                         *)
(***************************************************************************)
\* The field names of the model as sorted() orders them.
SortedFields ==
    <<"a.B.c", "code", "id", "name", "project", "sg_sequence", "sg_sequence.Sequence.code",
      "sg_sequence.Shot.code", "tasks", "type", "updated_at">>

\* A repeated entity given with its code next to its type and id.
minimal_with_code(h, o) ==
    DictV([f \in {"type", "id", "code"} \cap DOMAIN h[o].fields |-> h[o].fields[f]])

\* Entity.minimal: dict(type=self['type'], id=self['id']).
minimal(h, o) == DictV([type |-> h[o].fields["type"], id |-> h[o].fields["id"]])

RECURSIVE as_dict_value(_, _, _)
RECURSIVE as_dict_items(_, _, _, _, _, _, _)
RECURSIVE as_dict_next(_, _, _, _, _, _, _)

\* Entity._as_dict(obj, visited): the output, the set visited afterwards,
\* and the exception.  "obj in visited" hashes the entity, which raises
\* TypeError without a type and an id; a member of visited is found by its
\* identity, every (type, id) having one instance.  A list that holds
\* itself is descended into without end, until the interpreter raises
\* RuntimeError for the depth of the recursion.
as_dict_value(h, obj, visited) ==
    CASE obj.k \in {"list", "tuple"} ->
            as_dict_items(h, obj.l, [n \in 1..Len(obj.l) |-> n], 1, <<>>, visited, TRUE)
      [] obj.k = "ent" ->
            IF ~(Truthy(h[obj.o].fields["type"]) /\ Truthy(h[obj.o].fields["id"]))
            THEN [val |-> NoneV, visited |-> visited, err |-> "TypeError"]
            ELSE IF obj.o \in visited
            THEN [val |-> minimal(h, obj.o), visited |-> visited, err |-> "ok"]
            ELSE as_dict_items(h, h[obj.o].fields,
                               SelectSeq(SortedFields, LAMBDA k : k \in DOMAIN h[obj.o].fields),
                               1, EmptyMap, visited \cup {obj.o}, FALSE)
      [] obj.k = "dict" ->
            as_dict_items(h, obj.d, SelectSeq(SortedFields, LAMBDA k : k \in DOMAIN obj.d),
                          1, EmptyMap, visited, FALSE)
      [] obj.k = "up" -> [val |-> NoneV, visited |-> visited, err |-> "RuntimeError"]
      [] OTHER -> [val |-> obj, visited |-> visited, err |-> "ok"]

\* "for k, v in sorted(obj.iteritems()): ret[k] = cls._as_dict(v, visited)",
\* and the list comprehension over a list or tuple (keys 1, 2, ...).
as_dict_items(h, d, keys, i, acc, visited, is_list) ==
    IF i > Len(keys)
    THEN [val |-> IF is_list THEN ListV(acc) ELSE DictV(acc),
          visited |-> visited, err |-> "ok"]
    ELSE as_dict_next(as_dict_value(h, d[keys[i]], visited), h, d, keys, i, acc, is_list)

as_dict_next(r, h, d, keys, i, acc, is_list) ==
    IF r.err # "ok" THEN r
    ELSE as_dict_items(h, d, keys, i + 1,
                       IF is_list THEN Append(acc, r.val) ELSE Put(acc, keys[i], r.val),
                       r.visited, is_list)

\* Entity.update(tasks=[a, b]): a field that holds a list of entities.
ListUpdate ==
    \E self \in Oids, a \in Oids, b \in Oids :
        LET x == DictV([tasks |-> ListV(<<EntV(a), EntV(b)>>)])
            r == _update(St(cache, heap), self, EntV(self), x, NoneV, NoneV, <<"tasks">>)
        IN  /\ Step(r)
            /\ last' = Op("update", self, x, NoneV, NoneV, r)
            /\ UNCHANGED server

\* Entity.as_dict().
AsDict ==
    \E self \in Oids :
        LET r == as_dict_value(heap, EntV(self), {})
        IN  /\ last' = Op("as_dict", self, NoneV, NoneV, NoneV, r)
            /\ UNCHANGED <<cache, heap, server, steps>>

NextExport == Register \/ CodeUpdate \/ LinkUpdate \/ ListUpdate \/ AsDict

SpecExport == Init /\ [][NextExport]_vars

\* The records of entities in an output of as_dict, in the order of the
\* traversal.
RECURSIVE Occurrences(_)
RECURSIVE OccurrencesIn(_, _, _)
Occurrences(v) ==
    CASE v.k = "dict" ->
            (IF IsEntityRecord(v) THEN <<v>> ELSE <<>>)
            \o OccurrencesIn(v.d, SelectSeq(SortedFields, LAMBDA k : k \in DOMAIN v.d), 1)
      [] v.k = "list" -> OccurrencesIn(v.l, [n \in 1..Len(v.l) |-> n], 1)
      [] OTHER -> <<>>

OccurrencesIn(d, keys, i) ==
    IF i > Len(keys) THEN <<>>
    ELSE Occurrences(d[keys[i]]) \o OccurrencesIn(d, keys, i + 1)

(***************************************************************************)
(* C27.  as_dict returns on every graph of entities, links that form a     *)
(* cycle included; in its output the first record of an entity in the      *)
(* order of the traversal has all the fields of the entity, and every      *)
(* later record of the same entity has its type and id only.               *)
(***************************************************************************)
C27_ExpandedOnce ==
    last.op = "as_dict" =>
        /\ last.err = "ok"
        /\ Occurrences(last.ret)[1] = last.ret
        /\ \A n \in 1..Len(Occurrences(last.ret)) :
              IF \E m \in 1..(n - 1) :
                    RecordKey(Occurrences(last.ret)[m]) = RecordKey(Occurrences(last.ret)[n])
              THEN DOMAIN Occurrences(last.ret)[n].d = {"type", "id"}
              ELSE DOMAIN Occurrences(last.ret)[n].d =
                      DOMAIN FieldsAt(cache, heap, RecordKey(Occurrences(last.ret)[n]))

\* as_dict of an entity on a cycle of two entities that link to each
\* other: the other entity is expanded inside it, and holds its minimal
\* record.
C27_Witness ==
    /\ last.op = "as_dict"
    /\ last.err = "ok"
    /\ \E o \in Oids \ {last.self} :
          /\ "sg_sequence" \in DOMAIN heap[last.self].fields
          /\ heap[last.self].fields["sg_sequence"] = EntV(o)
          /\ "sg_sequence" \in DOMAIN heap[o].fields
          /\ heap[o].fields["sg_sequence"] = EntV(last.self)
          /\ last.ret.d["sg_sequence"].d["sg_sequence"] = minimal(heap, last.self)

(***************************************************************************)
(* The path-remap hook.                                                    *)
(***************************************************************************)
Paths == {"/old/movie.mp4", "/src/movie.mp4", "/tmp/movie.mp4"}

\* A string, a mapping that holds a string and a sequence that holds one.
PathValues ==
    {StrV(p) : p \in Paths} \cup {DictV([code |-> StrV(p)]) : p \in Paths}
        \cup {ListV(<<StrV(p)>>) : p \in Paths}

\* v with the hook applied once to each of its strings.
Remapped(v) ==
    CASE v.k = "str" -> StrV(dir_map(v.s))
      [] v.k = "dict" -> DictV([code |-> StrV(dir_map(v.d["code"].s))])
      [] v.k = "list" -> ListV(<<StrV(dir_map(v.l[1].s))>>)

\* entity['name'] = v.
PathSetItem ==
    \E self \in Oids, v \in PathValues :
        LET r == setitem(St(cache, heap), self, "name", v)
        IN  /\ Step(r)
            /\ last' = Op("path_setitem", self, v, NoneV, NoneV, r)
            /\ UNCHANGED server

\* entity.update(name=v).
PathUpdate ==
    \E self \in Oids, v \in PathValues :
        LET r == _update(St(cache, heap), self, EntV(self), DictV([name |-> v]),
                         NoneV, NoneV, <<"name">>)
        IN  /\ Step(r)
            /\ last' = Op("path_update", self, v, NoneV, NoneV, r)
            /\ UNCHANGED server

\* session.merge({'type': t, 'id': i, 'name': v}).
PathMerge ==
    \E key \in Keys, v \in PathValues :
        LET r == merge(St(cache, heap), DictV(Put(key, "name", v)), NoneV, NoneV, 0, <<>>)
        IN  /\ Step(r)
            /\ last' = Op("path_merge", NoneV, v, NoneV, NoneV, r)
            /\ UNCHANGED server

NextRemap == Register \/ PathSetItem \/ PathUpdate \/ PathMerge

SpecRemap == Init /\ [][NextRemap]_vars

(***************************************************************************)
(* C28.  The path-remap hook is applied exactly once to every string: the  *)
(* value that an item assignment, an update or a merge has stored in the   *)
(* field of an entity is the value it was given with each string s         *)
(* replaced by remap(s), also for a remap that is not idempotent.          *)
(***************************************************************************)
C28_RemappedOnce ==
    \A o \in Oids :
        /\ last.op \in {"path_setitem", "path_update"} /\ last.self = o /\ last.err = "ok"
              => heap[o].fields["name"] = Remapped(last.data)
        /\ last.op = "path_merge" /\ "name" \in DOMAIN heap[o].fields
              => heap[o].fields["name"] \in {Remapped(v) : v \in PathValues}

(***************************************************************************)
(* The field planner, Session._add_default_fields.  A field name is the    *)
(* sequence of its parts, field.split('.').                                *)
(***************************************************************************)
MaxFields == 3

PlanTypes == {"Shot", "Sequence", "Project", "Note"}

\* The fields a caller asks for.
RequestedFields ==
    {<<"code">>, <<"id">>, <<"a", "B", "c">>, <<"sg_sequence", "Sequence", "name">>}

FieldLists == UNION {[1..n -> RequestedFields] : n \in 0..MaxFields}

\* The parts of the field names as strings are ordered.
PartOrder ==
    <<"B", "Project", "Sequence", "a", "c", "code", "id", "name", "project",
      "sg_sequence", "updated_at">>

Rank(part) == CHOOSE n \in 1..Len(PartOrder) : PartOrder[n] = part

\* '.'.join(f) < '.'.join(g): "." is smaller than every character of a part.
RECURSIVE FieldLess(_, _)
FieldLess(f, g) ==
    IF f = <<>> THEN g # <<>>
    ELSE IF g = <<>> THEN FALSE
    ELSE IF f[1] = g[1] THEN FieldLess(Tail(f), Tail(g))
    ELSE Rank(f[1]) < Rank(g[1])

\* sorted(fields) of a set.
RECURSIVE sorted(_)
sorted(fields) ==
    IF fields = {} THEN <<>>
    ELSE LET m == CHOOSE x \in fields : \A y \in fields \ {x} : FieldLess(x, y)
         IN  <<m>> \o sorted(fields \ {m})

\* Session.important_fields.
important_fields(type_) ==
    CASE type_ \in {"Shot", "Sequence"} -> <<"code">>
      [] type_ = "Project" -> <<"name">>
      [] OTHER -> <<>>

\* Session.important_links.
important_links(type_) ==
    CASE type_ = "Shot" -> [project |-> <<"Project">>, sg_sequence |-> <<"Sequence">>]
      [] type_ = "Sequence" -> [project |-> <<"Project">>]
      [] OTHER -> EmptyMap

\* No stub at all for a deep field.
implied_none(field) == {}

\* "for i in xrange(2, len(parts) + 1, 2): implied.add('.'.join(parts[:i]) + '.id')".
implied(field) ==
    {SubSeq(field, 1, i) \o <<"id">> : i \in {j \in 2..Len(field) : j % 2 = 0}}

\* "itertools.chain(self.important_fields_for_all, remote_fields,
\* remote_links.iterkeys())" for a type that a link leads to.
remote_fields(link_type) ==
    {"updated_at"} \cup {important_fields(link_type)[m] : m \in 1..Len(important_fields(link_type))}
        \cup DOMAIN important_links(link_type)

\* "fields.add('%s.%s.%s' % (local_field, link_type, remote_field))" for the
\* remote fields of every type of every important link.
link_fields(type_) ==
    UNION {UNION {{<<local_field, important_links(type_)[local_field][n], remote_field>> :
                      remote_field \in remote_fields(important_links(type_)[local_field][n])} :
                  n \in 1..Len(important_links(type_)[local_field])} :
           local_field \in DOMAIN important_links(type_)}

\* Session._add_default_fields(type_, fields).
_add_default_fields(type_, fields) ==
    LET requested == IF Len(fields) = 0 THEN {<<"id">>}
                     ELSE {fields[n] : n \in 1..Len(fields)}
        defaults == requested \cup {<<"updated_at">>}
                        \cup {<<important_fields(type_)[n]>> : n \in 1..Len(important_fields(type_))}
                        \cup (IF parent_fields(StrV(type_)) = NoneV THEN {}
                              ELSE {<<parent_fields(StrV(type_)).s>>})
    IN  sorted(defaults \cup UNION {implied(f) : f \in defaults}
                   \cup {<<l>> : l \in DOMAIN important_links(type_)}
                   \cup link_fields(type_))

\* The planner is about to be called for a type and a list of fields.
InitPlan ==
    /\ cache = EmptyMap
    /\ heap = EmptyMap
    /\ server = Keys
    /\ steps = 0
    /\ \E type_ \in PlanTypes, fields \in FieldLists :
          last = [op |-> "plan", self |-> StrV(type_), data |-> fields, over |-> NoneV,
                  created_at |-> NoneV, err |-> "ok", ret |-> NoneV]

AddDefaultFields ==
    /\ last.op = "plan"
    /\ last' = [last EXCEPT !.op = "_add_default_fields",
                            !.ret = _add_default_fields(last.self.s, last.data)]
    /\ UNCHANGED <<cache, heap, server, steps>>

SpecPlan == InitPlan /\ [][AddDefaultFields]_vars

Planned == {last.ret[n] : n \in 1..Len(last.ret)}

(***************************************************************************)
(* C29.  The list of fields that the planner returns for a type and the    *)
(* requested fields is sorted and free of duplicates, it is the same for   *)
(* every order and every repetition of the requested fields, and it holds  *)
(* every requested field, updated_at, the important fields of the type,    *)
(* the field of its parent, and the stub a.B.id of every requested deep    *)
(* field a.B.c.                                                            *)
(***************************************************************************)
C29_PlannerDeterministic ==
    last.op = "_add_default_fields" =>
        /\ \A n \in 1..(Len(last.ret) - 1) : FieldLess(last.ret[n], last.ret[n + 1])
        /\ \A g \in FieldLists :
              {g[n] : n \in 1..Len(g)} = {last.data[n] : n \in 1..Len(last.data)}
                  => _add_default_fields(last.self.s, g) = last.ret
        /\ \A n \in 1..Len(last.data) :
              /\ last.data[n] \in Planned
              /\ Len(last.data[n]) = 3 => <<last.data[n][1], last.data[n][2], "id">> \in Planned
        /\ <<"updated_at">> \in Planned
        /\ last.self.s \in {"Shot", "Sequence"} => <<"code">> \in Planned
        /\ last.self.s = "Project" => <<"name">> \in Planned
        /\ last.self.s = "Shot" => <<"sg_sequence">> \in Planned
        /\ last.self.s = "Sequence" => <<"project">> \in Planned

\* The planner is given a deep field twice, around a plain field, for a
\* Shot.
C29_Witness ==
    /\ last.op = "_add_default_fields"
    /\ last.self = StrV("Shot")
    /\ last.data = <<(<<"a", "B", "c">>), <<"code">>, <<"a", "B", "c">>>>
    /\ last.ret[1] = <<"a", "B", "c">>
    /\ last.ret[2] = <<"a", "B", "id">>

(***************************************************************************)
(* fetch_heirarchy, one pass of its loop at a time.  While a call runs,    *)
(* last.over holds its local variables and last.data the requests it has   *)
(* sent.                                                                   *)
(***************************************************************************)
Running == last.op = "heirarchy_pass" /\ last.over.pc = "loop"

\* The local variables of fetch_heirarchy; by_type holds the entities that
\* the last pass has grouped by type.
Locals(pc, pick, to_fetch, to_resolve, all_nodes, loop_count, by_type) ==
    [pc |-> pc, pick |-> pick, to_fetch |-> to_fetch, to_resolve |-> to_resolve,
     all_nodes |-> all_nodes, loop_count |-> loop_count, by_type |-> by_type]

\* The call has ended: it returned v or raised err.
Ended(st, c, reqs, err, v) ==
    [st |-> st, over |-> [c EXCEPT !.pc = "done"], reqs |-> reqs, err |-> err, val |-> v]

\* After self.find of one pass: f is its result, c the local variables
\* when it was called, to_fetch being the entities asked for.
pass_found(f, c, reqs, parent_name) ==
    IF f.err # "ok" THEN Ended(f.st, c, reqs, f.err, NoneV)
    ELSE IF \E o \in Found(f.val.l) :
                ~Truthy(get(f.st.heap, f.st.heap[o].fields, parent_name, NoneV))
    THEN Ended(f.st, c, reqs, "ValueError", NoneV)
    ELSE IF c.to_fetch \ Found(f.val.l) # {}
    THEN Ended(f.st, c, reqs, "EntityNotFoundError", NoneV)
    ELSE [st |-> f.st, over |-> c, reqs |-> reqs, err |-> "ok", val |-> NoneV]

\* After the walks w of one pass: bail, or take the largest group out of
\* to_resolve and ask for it.
pass_walked(w, st, srv, c, reqs, type_) ==
    IF w.err # "ok" THEN Ended(st, c, reqs, w.err, NoneV)
    ELSE IF w.to_resolve = {} THEN Ended(st, c, reqs, "ok", SetV(w.nodes))
    ELSE pass_found(find_in(st, srv, {}, type_, IdsOf(st.heap, OfType(st.heap, w.to_resolve, type_)),
                            parent_fields(type_).s),
                    Locals("loop", c.pick, OfType(st.heap, w.to_resolve, type_),
                           w.to_resolve \ OfType(st.heap, w.to_resolve, type_),
                           w.nodes \cup w.to_resolve, c.loop_count + 1, w.to_resolve),
                    Append(reqs, [type |-> type_,
                                  ids |-> IdsOf(st.heap, OfType(st.heap, w.to_resolve, type_))]),
                    parent_fields(type_).s)

\* One round of "while to_fetch or to_resolve".
heirarchy_pass(st, srv, c, reqs) ==
    IF c.to_fetch = {} /\ c.to_resolve = {} THEN Ended(st, c, reqs, "ok", SetV(c.all_nodes))
    ELSE IF c.loop_count > 20 THEN Ended(st, c, reqs, "RuntimeError", NoneV)
    ELSE LET w == walk_all(st.heap, KeySeq(c.to_fetch),
                           [err |-> "ok", nodes |-> c.all_nodes, to_resolve |-> c.to_resolve])
         IN  pass_walked(w, st, srv, c, reqs,
                         IF w.err = "ok" /\ w.to_resolve # {}
                         THEN max_type(st.heap, w.to_resolve, c.pick) ELSE NoneV)

MaxPassSteps == 4

\* Session.merge and Entity.update between the calls of fetch_heirarchy.
PassRegister == ~Running /\ steps < MaxPassSteps /\ RegisterH

PassParentUpdate == ~Running /\ steps < MaxPassSteps /\ ParentUpdate

\* Session.fetch_heirarchy(to_fetch) is called.
HeirarchyCall ==
    \E to_fetch \in SUBSET Oids, pick \in Picks :
        /\ ~Running
        /\ to_fetch # {}
        /\ steps < MaxPassSteps
        /\ steps' = steps + 1
        /\ last' = [op |-> "heirarchy_pass", self |-> SetV(to_fetch),
                    data |-> [k |-> "requests", l |-> <<>>],
                    over |-> Locals("loop", pick, to_fetch, {}, {}, 0, {}),
                    created_at |-> NoneV, err |-> "ok", ret |-> NoneV]
        /\ UNCHANGED <<cache, heap, server>>

\* The call goes through one round of its loop.
HeirarchyPass ==
    /\ Running
    /\ LET r == heirarchy_pass(St(cache, heap), server, last.over, last.data.l)
       IN  /\ cache' = r.st.cache
           /\ heap' = r.st.heap
           /\ last' = [last EXCEPT !.data = [k |-> "requests", l |-> r.reqs],
                                   !.over = r.over, !.err = r.err, !.ret = r.val]
    /\ UNCHANGED <<server, steps>>

NextPasses == PassRegister \/ PassParentUpdate \/ HeirarchyCall \/ HeirarchyPass

SpecPasses == InitH /\ [][NextPasses]_vars

\* The entity of a key is left pending by a pass of the call.
Pending(key) ==
    /\ last.op = "heirarchy_pass"
    /\ \E o \in last.over.to_resolve : cache_key(heap[o].fields, o) = key

\* The call has asked the server for the entity of a key.
Requested(key) ==
    /\ last.op = "heirarchy_pass"
    /\ \E n \in 1..Len(last.data.l) :
          last.data.l[n].type = key.type /\ key.id \in last.data.l[n].ids

\* The parent of the entity of a key is known.
Resolved(key) == key \in DOMAIN cache /\ Truthy(parent(heap, cache[key]))

\* The last request of the call is for the largest group of the entities
\* that the pass has grouped, with all the ids of the group, and the other
\* entities are pending.
LargestGroupRequested ==
    last.op = "heirarchy_pass" /\ Len(last.data.l) > 0 =>
        LET request == last.data.l[Len(last.data.l)]
            group == OfType(heap, last.over.by_type, request.type)
        IN  /\ Len(last.data.l) = last.over.loop_count
            /\ request.ids = IdsOf(heap, group)
            /\ group # {}
            /\ \A t \in HTypes :
                  Cardinality(OfType(heap, last.over.by_type, StrV(t))) <= Cardinality(group)
            /\ last.over.to_resolve = last.over.by_type \ group

(***************************************************************************)
(* C30.  Each pass of fetch_heirarchy sends one request, for the largest   *)
(* group by type of the entities whose parent is unknown and with all the  *)
(* ids of that group; the entities of the other types stay pending for the *)
(* later passes, none is dropped: when the call has ended, each entity     *)
(* that a pass left pending has been requested, or its parent is known.    *)
(***************************************************************************)
C30_PendingRequested ==
    /\ LargestGroupRequested
    /\ last.op = "heirarchy_pass" /\ last.over.pc = "done" =>
          \A key \in HKeys : Pending(key) => Requested(key) \/ Resolved(key)

\* Every parent link of the cache is the link that the server holds: the
\* cached chains are as acyclic as the chains of the server, which lead
\* from a Shot to a Sequence and from there to the Project.
CachedAsServer ==
    \A o \in Oids :
        Truthy(parent(heap, o)) =>
            /\ parent(heap, o).k = "ent"
            /\ DictV(cache_key(heap[parent(heap, o).o].fields, parent(heap, o).o))
                  = server_parent(cache_key(heap[o].fields, o))

(***************************************************************************)
(* C31.  When the parent chains that the server holds are acyclic and end  *)
(* at a root, fetch_heirarchy completes: it returns, and in particular it  *)
(* does not raise the RuntimeError of its bound on the passes.             *)
(***************************************************************************)
C31_HeirarchyCompletes ==
    (last.op = "fetch_heirarchy" /\ last.over = SetV({}) /\ server = HKeys /\ CachedAsServer)
        => last.err = "ok"

(***************************************************************************)
(* Cyclic input of merge.                                                  *)
(***************************************************************************)
\* A list that holds itself, directly and through a nested list; a tuple
\* that holds itself through a list; a dict that holds itself, directly and
\* through a list; a list that holds itself next to the record of an
\* entity.
CyclicInputs ==
    {ListV(<<IntV(1), UpV(1)>>),
     ListV(<<ListV(<<UpV(2)>>), IntV(1)>>),
     TupleV(<<ListV(<<UpV(2)>>)>>),
     DictV([code |-> UpV(1)]),
     ListV(<<DictV([code |-> UpV(2)])>>),
     ListV(<<Minimal("Shot", 1), UpV(1)>>)}

\* session.merge(data) of a cyclic structure.
MergeCyclic ==
    \E data \in CyclicInputs :
        LET r == merge(St(cache, heap), data, NoneV, NoneV, 0, <<>>)
        IN  /\ Step(r)
            /\ last' = Op("merge_cyclic", NoneV, data, NoneV, NoneV, r)
            /\ UNCHANGED server

\* entity['tasks'] = data for a cyclic structure.
SetItemCyclic ==
    \E self \in Oids, data \in CyclicInputs :
        LET r == setitem(St(cache, heap), self, "tasks", data)
        IN  /\ Step(r)
            /\ last' = Op("setitem_cyclic", self, data, NoneV, NoneV, r)
            /\ UNCHANGED server

NextCyclic == Register \/ MergeCyclic \/ SetItemCyclic

SpecCyclic == Init /\ [][NextCyclic]_vars

\* The structure data with the record of every entity replaced by the
\* instance that the identity map holds for it.
RECURSIVE Canonical(_)
Canonical(data) ==
    CASE data.k \in {"list", "tuple"} ->
            [data EXCEPT !.l = [n \in 1..Len(data.l) |-> Canonical(data.l[n])]]
      [] data.k = "dict" /\ IsEntityRecord(data) /\ RecordKey(data) \in DOMAIN cache ->
            EntV(cache[RecordKey(data)])
      [] data.k = "dict" -> [data EXCEPT !.d = [f \in DOMAIN data.d |-> Canonical(data.d[f])]]
      [] OTHER -> data

\* The value v is, or holds at some depth, the placeholder of the memo.
RECURSIVE HoldsSentinel(_)
HoldsSentinel(v) ==
    CASE v = recursion_sentinel -> TRUE
      [] v.k \in {"list", "tuple"} -> \E n \in 1..Len(v.l) : HoldsSentinel(v.l[n])
      [] v.k = "dict" -> \E f \in DOMAIN v.d : HoldsSentinel(v.d[f])
      [] OTHER -> FALSE

(***************************************************************************)
(* C32.  merge of a list or a non-entity mapping that holds itself,        *)
(* directly or through nesting, returns: the structure it returns has the  *)
(* cyclic shape of the input, the order of the elements and the kind of    *)
(* every container, with the instance of the identity map in the place of  *)
(* every record of an entity.                                              *)
(***************************************************************************)
C32_CyclicRebuilt ==
    last.op = "merge_cyclic" =>
        /\ last.err = "ok"
        /\ last.ret = Canonical(last.data)

(***************************************************************************)
(* C33.  The placeholder of the memo is in no structure that merge has     *)
(* returned and in no field of an entity: a merge that comes back to a     *)
(* node whose placeholder is unresolved raises RuntimeError.               *)
(***************************************************************************)
C33_NoSentinelLeak ==
    /\ last.op = "merge_cyclic" => ~HoldsSentinel(last.ret)
    /\ \A o \in Oids : \A f \in DOMAIN heap[o].fields : ~HoldsSentinel(heap[o].fields[f])

\* The entity e is asked for by a request of the operation.
AskedFor(e, reqs) == \E n \in 1..Len(reqs) : reqs[n].type = e.t /\ e.i \in reqs[n].ids

(***************************************************************************)
(* C34.  Session.fetch changes what is known of the existence of those     *)
(* given entities only whose ids a request has asked for: a given entity   *)
(* that held every field, and was not asked for, keeps its state.          *)
(***************************************************************************)
C34_UnaskedKeepExistence ==
    [][FetchStep =>
          \A e \in last'.self.s :
              ~AskedFor(e, last'.data.l) => heap'[e].exists = heap[e].exists]_vars

\* A step that is a call of Session.merge which raises.
FailedMerge == steps' = steps + 1 /\ last'.op = "merge" /\ last'.err # "ok"

(***************************************************************************)
(* C35.  A merge that raises leaves the identity map, the fields of every  *)
(* entity and every backref bucket as they were before the call.           *)
(***************************************************************************)
C35_FailedMergeChangesNothing ==
    [][FailedMerge => cache' = cache /\ heap' = heap]_vars

(***************************************************************************)
(* The raw structure of the caller after a call.                           *)
(***************************************************************************)
\* Records with a link, with and without a deep-linked key next to it, and
\* a record with the deep-linked key alone.
RawRecords ==
    {DictV([sg_sequence |-> Minimal("Sequence", 1)]),
     DictV(Put([sg_sequence |-> Minimal("Sequence", 1)], "sg_sequence.Sequence.code", IntV(1))),
     DictV(Put([sg_sequence |-> DictV([id |-> IntV(1)])], "sg_sequence.Sequence.code", IntV(1))),
     DictV(Put(EmptyMap, "sg_sequence.Sequence.code", IntV(1)))}

\* Entity._update: "src = dict(src)" copies the mapping of the caller but
\* not the dicts it holds, so "src[field].setdefault('type', type_)" and
\* "src[field][deep_field] = v" act on the dict of the caller.  pre is the
\* result of the pre-processing of src.
raw_after(src, pre) ==
    [k \in DOMAIN src |->
        IF src[k].k = "dict" /\ pre.err = "ok" /\ k \in DOMAIN pre.val THEN pre.val[k]
        ELSE src[k]]

\* entity.update(x) for a raw record x; last.over is x after the call.
UpdateRaw ==
    \E self \in Oids, x \in RawRecords :
        \E order \in Orders(update_deep(St(cache, heap), x.d, x.d, DeepKeys(x.d), 1)) :
            LET r == _update(St(cache, heap), self, EntV(self), x, NoneV, NoneV, order)
            IN  /\ Step(r)
                /\ last' = Op("update_raw", self, x,
                              DictV(raw_after(x.d, update_deep(St(cache, heap), x.d, x.d,
                                                               DeepKeys(x.d), 1))),
                              NoneV, r)
                /\ UNCHANGED server

\* session.merge(x) for a raw record x with a type and an id; last.over is x
\* after the call.  Session._merge reads x, and hands it to Entity._update
\* as dst, which is written by the loop over src only: the call raises
\* before that loop, at "src = dict(src)".
MergeRaw ==
    \E x \in RawRecords :
        LET data == DictV(Put(Put(x.d, "type", StrV("Shot")), "id", IntV(1)))
            r == merge(St(cache, heap), data, NoneV, NoneV, 0, <<>>)
        IN  /\ Step(r)
            /\ last' = Op("merge_raw", NoneV, data, data, NoneV, r)
            /\ UNCHANGED server

NextRaw == Register \/ UpdateRaw \/ MergeRaw

SpecRaw == Init /\ [][NextRaw]_vars

(***************************************************************************)
(* C36.  The merge of a raw record does not change the record: after the   *)
(* call the structure of the caller, the mappings of its links included,   *)
(* has the keys and the values it had before, also when the record holds a *)
(* deep-linked key next to the link that the key refers to.                *)
(***************************************************************************)
C36_InputUnchanged ==
    last.op \in {"merge_raw", "update_raw"} => last.over = last.data

\* A step that merges, into an entity whose field sg_sequence refers to a
\* Sequence instance, a record that holds the deep-linked key
\* sg_sequence.Sequence.code and no key sg_sequence.
DeepOnLinked ==
    /\ steps' = steps + 1
    /\ last'.op = "update"
    /\ last'.data = DictV(Put(EmptyMap, "sg_sequence.Sequence.code", IntV(1)))
    /\ "sg_sequence" \in DOMAIN heap[last'.self].fields
    /\ heap[last'.self].fields["sg_sequence"].k = "ent"
    /\ heap[last'.self].fields["sg_sequence"].o.t = StrV("Sequence")

(***************************************************************************)
(* C37.  The merge of a record with a deep-linked key a.B.c and without    *)
(* the key a, into an entity whose field a refers to an Entity of type B,  *)
(* leaves the field referring to that same instance: no stub without an id *)
(* takes its place.                                                        *)
(***************************************************************************)
C37_LinkKept ==
    [][DeepOnLinked =>
          heap'[last'.self].fields["sg_sequence"] = heap[last'.self].fields["sg_sequence"]]_vars

(***************************************************************************)
(* The reference timestamp of a merge.                                     *)
(***************************************************************************)
\* session.merge({'type': t, 'id': i, 'code': 2}, created_at=stamp): a
\* record without updated_at, merged with a reference timestamp.
MergeStamped ==
    \E key \in Keys, stamp \in {IntV(1), IntV(3)} :
        LET data == DictV(Put(key, "code", IntV(2)))
            r == merge(St(cache, heap), data, NoneV, stamp, 0, <<>>)
        IN  /\ Step(r)
            /\ last' = Op("merge_stamped", NoneV, data, NoneV, stamp, r)
            /\ UNCHANGED server

\* entity.update(code=2): a record without updated_at and without a
\* reference timestamp.
BareUpdate ==
    \E self \in Oids :
        LET x == DictV([code |-> IntV(2)])
            r == _update(St(cache, heap), self, EntV(self), x, NoneV, NoneV, <<"code">>)
        IN  /\ Step(r)
            /\ last' = Op("update_bare", self, x, NoneV, NoneV, r)
            /\ UNCHANGED server

NextStamp == Register \/ NewerUpdate \/ MergeStamped \/ BareUpdate

SpecStamp == Init /\ [][NextStamp]_vars

\* The instance that a step merges into holds updated_at before the step.
StampedInto(o) ==
    /\ steps' = steps + 1
    /\ o \in Oids
    /\ "updated_at" \in DOMAIN heap[o].fields
    /\ \/ last'.op = "update_bare" /\ last'.self = o
       \/ last'.op = "merge_stamped" /\ RecordKey(last'.data) \in DOMAIN cache
            /\ cache[RecordKey(last'.data)] = o

(***************************************************************************)
(* C38.  In the default mode a record without updated_at is compared by    *)
(* the reference timestamp given to merge: its values replace those of an  *)
(* entity that holds updated_at exactly when the reference timestamp is    *)
(* the newer one.  Without updated_at and without a reference timestamp    *)
(* the values of the record replace those of the entity.                   *)
(***************************************************************************)
C38_ReferenceTimestamp ==
    [][\A o \in DOMAIN heap :
          StampedInto(o) =>
              /\ last'.err = "ok"
              /\ heap'[o].fields["code"] =
                    IF last'.op = "update_bare"
                          \/ Gt(last'.created_at, heap[o].fields["updated_at"])
                    THEN IntV(2) ELSE heap[o].fields["code"]]_vars

(***************************************************************************)
(* Two asynchronous operations merging children of one parent.             *)
(***************************************************************************)
\* The record of a Shot as the server returns it, linking to its Sequence.
ChildRecord(i) ==
    DictV([type |-> StrV("Shot"), id |-> IntV(i), sg_sequence |-> Minimal("Sequence", 1)])

\* The workers of the last pair of linked calls.
Workers == last.over

\* _submit_concurrent, twice: each worker is to merge the record of one
\* child; the two children may be the same entity.
AsyncLinked ==
    \E i1 \in Ids, i2 \in Ids :
        /\ last.op = "async_linked" => \A t \in Threads : Workers[t].pc = "done"
        /\ steps < MaxSteps
        /\ steps' = steps + 1
        /\ last' = [op |-> "async_linked", self |-> NoneV,
                    data |-> ListV(<<ChildRecord(i1), ChildRecord(i2)>>),
                    over |-> [t \in Threads |->
                                [pc |-> "merge", entity |-> NoneV, err |-> "ok",
                                 data |-> ChildRecord(IF t = 1 THEN i1 ELSE i2)]],
                    created_at |-> NoneV, err |-> "ok", ret |-> NoneV]
        /\ UNCHANGED <<cache, heap, server>>

\* Session._merge in a worker, "new = Entity(...); entity =
\* self._cache.setdefault(new.cache_key, new)".
LinkedRegister ==
    \E t \in Threads :
        LET data == Workers[t].data
            oid == NewOid(heap, data.d["type"], data.d["id"])
            key == cache_key(Entity(data.d["type"], data.d["id"]).fields, oid)
            c == cache_setdefault(cache, key, oid)
        IN  /\ last.op = "async_linked"
            /\ Workers[t].pc = "merge"
            /\ cache' = c
            /\ heap' = IF c[key] = oid
                       THEN Put(heap, oid, Entity(data.d["type"], data.d["id"]))
                       ELSE heap
            /\ last' = [last EXCEPT !.over[t] = [pc |-> "update", entity |-> EntV(c[key]),
                                                 err |-> "ok", data |-> data]]
            /\ UNCHANGED <<server, steps>>

\* Session._merge in a worker, "entity._update(data, over, created_at,
\* depth + 1, memo); return entity", with over=True as Session.find passes.
LinkedUpdate ==
    \E t \in Threads :
        LET r == _update(St(cache, heap), Workers[t].entity.o, Workers[t].data, BoolV(TRUE),
                         NoneV, IntV(2), <<>>)
        IN  /\ last.op = "async_linked"
            /\ Workers[t].pc = "update"
            /\ cache' = r.st.cache
            /\ heap' = r.st.heap
            /\ last' = [last EXCEPT !.over[t] = [pc |-> "done", entity |-> @.entity,
                                                 err |-> r.err, data |-> @.data]]
            /\ UNCHANGED <<server, steps>>

NextParallel == Register \/ AsyncLinked \/ LinkedRegister \/ LinkedUpdate

SpecParallel == Init /\ [][NextParallel]_vars

\* How many times the bucket (Shot, sg_sequence) of the cached parent
\* holds the instance e.
TimesInBucket(e) ==
    IF Key("Sequence", 1) \notin DOMAIN cache THEN 0
    ELSE LET b == heap[cache[Key("Sequence", 1)]].backrefs
             k == <<StrV("Shot"), "sg_sequence">>
         IN  IF k \in DOMAIN b
             THEN Cardinality({n \in 1..Len(b[k]) : b[k][n] = e})
             ELSE 0

(***************************************************************************)
(* C39.  When two asynchronous operations have merged, in worker threads,  *)
(* the records of children that link to the same parent through the same   *)
(* field, the backref bucket of the parent holds each child exactly once,  *)
(* whatever the interleaving of the two workers.                           *)
(***************************************************************************)
C39_ChildOnceInBucket ==
    (last.op = "async_linked" /\ \A t \in Threads : Workers[t].pc = "done") =>
        \A t \in Threads :
            /\ Workers[t].err = "ok"
            /\ TimesInBucket(Workers[t].entity.o) = 1

(***************************************************************************)
(* Session.find_iter: the pages of a find, requested ahead of their use.   *)
(***************************************************************************)
MaxRows == 3

\* The server holds the Shots 1..n and returns them in the order of their
\* ids.
InitIter ==
    /\ cache = EmptyMap
    /\ heap = EmptyMap
    /\ server \in {{Key("Shot", i) : i \in 1..n} : n \in 0..MaxRows}
    /\ steps = 0
    /\ last = Op("init", NoneV, NoneV, NoneV, NoneV, Ok(St(EmptyMap, EmptyMap), NoneV))

\* self.shotgun.find(type_, filters, fields, limit=per_page, page=page):
\* the rows of one page.
shotgun_find_page(srv, per_page, page) ==
    LET n == Cardinality(srv)
        lo == (page - 1) * per_page + 1
        hi == IF page * per_page < n THEN page * per_page ELSE n
    IN  [i \in 1..(IF hi < lo THEN 0 ELSE hi - lo + 1) |-> Minimal("Shot", lo + i - 1)]

\* The local variables of find_iter and what the generator has yielded.
IterLocals == last.over

Iterating == last.op = "find_iter" /\ IterLocals.pc = "loop"

\* find_iter(type_, filters, limit=..., per_page=..., async_count=...,
\* merge=...), up to the first pass through "while not done".
FindIterCall ==
    \E limit \in {NoneV} \cup {IntV(n) : n \in 1..MaxRows},
       per_page \in {NoneV, IntV(1), IntV(2)},
       async_count \in 1..2, do_merge \in BOOLEAN :
        /\ last.op = "init"
        /\ steps' = steps + 1
        /\ last' = [op |-> "find_iter", self |-> NoneV,
                    data |-> [limit |-> limit, per_page |-> per_page,
                              async_count |-> async_count, merge |-> do_merge],
                    over |-> [pc |-> "loop", limit |-> limit,
                              per_page |-> IF per_page # NoneV THEN per_page.n
                                           ELSE IF limit # NoneV THEN limit.n ELSE 500,
                              async_count |-> async_count, merge |-> do_merge,
                              page |-> 1, futures |-> <<>>, yielded |-> <<>>],
                    created_at |-> NoneV, err |-> "ok", ret |-> NoneV]
        /\ UNCHANGED <<cache, heap, server>>

\* Session.find in a worker thread, for the page of one pending future:
\* the request, then the merge of every row unless merge=False was given.
WorkerFind ==
    /\ last.op = "find_iter"
    /\ \E n \in 1..Len(IterLocals.futures) :
        LET c == IterLocals
            rows == shotgun_find_page(server, c.per_page, c.futures[n].page)
            r == IF c.merge
                 THEN merge_seq(St(cache, heap), rows, 1, <<>>, BoolV(TRUE), NoneV, 0, <<>>)
                 ELSE Ok(St(cache, heap), rows)
        IN  /\ c.futures[n].pc = "pending"
            /\ cache' = r.st.cache
            /\ heap' = r.st.heap
            /\ last' = [last EXCEPT !.over.futures[n] =
                          [page |-> @.page, pc |-> "done", err |-> r.err,
                           rows |-> IF r.err = "ok" THEN r.val ELSE <<>>]]
            /\ UNCHANGED <<server, steps>>

\* "while rows and futures and futures[0].done()": how many futures of f
\* are done, counted from its head.
RECURSIVE LeadingDone(_)
LeadingDone(f) ==
    IF f = <<>> \/ f[1].pc # "done" THEN 0 ELSE 1 + LeadingDone(Tail(f))

\* The futures that one pass of the loop pops: the first one, and while
\* rows is not empty those behind it that are done.
Taken(f) ==
    IF f = <<>> THEN 0
    ELSE IF f[1].err # "ok" \/ f[1].rows = <<>> THEN 1
    ELSE 1 + LeadingDone(Tail(f))

\* rows, after "rows.extend(futures.pop(0).result())" for n futures of f.
RECURSIVE Extended(_, _)
Extended(f, n) ==
    IF n = 0 THEN <<>> ELSE Extended(f, n - 1) \o f[n].rows

\* "futures.append(self.find(*args, **kwargs)); page += 1", k times.
Queued(f, page, k) ==
    f \o [i \in 1..k |-> [page |-> page + i - 1, pc |-> "pending", err |-> "ok",
                          rows |-> <<>>]]

\* One pass through "while not done" of find_iter, its yields included.
IterStep ==
    LET c == IterLocals
        f == c.futures
        n == Taken(f)
        raised == {i \in 1..n : f[i].err # "ok"}
        rows == Extended(f, n)
        rest == SubSeq(f, n + 1, Len(f))
        limit == IF n > 0 /\ c.limit # NoneV THEN IntV(c.limit.n - Len(rows)) ELSE c.limit
        done == n > 0 /\ (Len(rows) < c.per_page \/ (limit # NoneV /\ limit.n <= 0))
        k == IF done \/ Len(rest) >= c.async_count THEN 0 ELSE c.async_count - Len(rest)
    IN  /\ Iterating
        /\ IF f = <<>> THEN TRUE ELSE f[1].pc = "done"
        /\ last' = IF raised # {}
                   THEN [last EXCEPT !.err = f[CHOOSE i \in raised : \A j \in raised : i <= j].err,
                                     !.over.pc = "done"]
                   ELSE [last EXCEPT !.over = [c EXCEPT !.pc = IF done THEN "done" ELSE "loop",
                                                        !.limit = limit,
                                                        !.futures = Queued(rest, c.page, k),
                                                        !.page = c.page + k,
                                                        !.yielded = c.yielded \o rows]]
        /\ UNCHANGED <<cache, heap, server, steps>>

NextIter == FindIterCall \/ WorkerFind \/ IterStep

SpecIter == InitIter /\ [][NextIter]_vars

\* The rows yielded so far are the first rows of the server, in order.
InPageOrder ==
    \A n \in 1..Len(IterLocals.yielded) :
        \/ IterLocals.yielded[n] = Minimal("Shot", n)
        \/ /\ Key("Shot", n) \in DOMAIN cache
           /\ IterLocals.yielded[n] = EntV(cache[Key("Shot", n)])

\* No more rows have been yielded than the limit given to the call.
WithinLimit ==
    last.data.limit # NoneV => Len(IterLocals.yielded) <= last.data.limit.n

\* The pass that is about to run pops a page that is empty or shorter than
\* per_page.
ShortPagePopped ==
    \E i \in 1..Taken(IterLocals.futures) :
        Len(IterLocals.futures[i].rows) < IterLocals.per_page

(***************************************************************************)
(* C40.  find_iter yields the rows of the successive pages in page order   *)
(* and does not fail; once it has popped a page that is empty or shorter   *)
(* than per_page it requests no further page; it never yields more rows    *)
(* than limit.  This holds for every per_page and async_count.             *)
(***************************************************************************)
C40_PagesInOrderWithinLimit ==
    [][last'.op = "find_iter" =>
          /\ last'.err = "ok"
          /\ InPageOrder'
          /\ WithinLimit'
          /\ (IterStep /\ ShortPagePopped) => IterLocals'.page = IterLocals.page]_vars

====
